---- MODULE Spec2Model ----
(***************************************************************************)
(* Header parsers of jain-sip-js: SupportedParser, AuthorizationParser and *)
(* ToParser, each driving a Lexer over the characters of a header line.    *)
(* A text is a sequence of one-character strings; a cursor is a 0-based    *)
(* offset into the lexer's buffer.                                         *)
(***************************************************************************)
EXTENDS Integers, Sequences, FiniteSets, TLC

(***************************************************************************)
(* Characters                                                              *)
(***************************************************************************)
NL  == "\n"
SP  == " "
HT  == "\t"
NUL == "NUL"     \* what lookAhead yields past the end of the buffer

LowerSeq == <<"a","b","c","d","e","f","g","h","i","j","k","l","m",
              "n","o","p","q","r","s","t","u","v","w","x","y","z">>
UpperSeq == <<"A","B","C","D","E","F","G","H","I","J","K","L","M",
              "N","O","P","Q","R","S","T","U","V","W","X","Y","Z">>
Digits   == {"0","1","2","3","4","5","6","7","8","9"}
Range(s) == {s[i] : i \in 1..Len(s)}

isAlphaDigit(c) == c \in Range(LowerSeq) \cup Range(UpperSeq) \cup Digits

\* characters of an identifier run (RFC 3261 token)
isTokenChar(c) ==
    isAlphaDigit(c) \/ c \in {"-", ".", "!", "%", "*", "_", "+", "`", "'", "~"}

toUpperCaseChar(c) ==
    IF c \in Range(LowerSeq)
    THEN UpperSeq[CHOOSE i \in 1..Len(LowerSeq) : LowerSeq[i] = c]
    ELSE c

toUpperCase(s) == [i \in 1..Len(s) |-> toUpperCaseChar(s[i])]

(***************************************************************************)
(* Token kinds and the keyword tables of the lexer contexts                *)
(***************************************************************************)
ID            == "ID"
SUPPORTED     == "SUPPORTED"
AUTHORIZATION == "AUTHORIZATION"
TO            == "TO"
TokenTypes    == {ID, SUPPORTED, AUTHORIZATION, TO}

\* the canonical header names
SupportedName     == <<"S","u","p","p","o","r","t","e","d">>
AuthorizationName == <<"A","u","t","h","o","r","i","z","a","t","i","o","n">>
ToName            == <<"T","o">>

\* keyword table of a context: upper-cased keyword -> token kind
Keywords(ctx) ==
    IF ctx = "command_keywordLexer"
    THEN { <<toUpperCase(SupportedName), SUPPORTED>>,
           <<toUpperCase(AuthorizationName), AUTHORIZATION>>,
           <<toUpperCase(ToName), TO>> }
    ELSE {}

Contexts == {"command_keywordLexer", "charLexer"}

NoToken == [tokenType |-> "none", tokenValue |-> <<>>, offset |-> 0]
NoError == [type |-> "none", offset |-> 0]

(***************************************************************************)
(* Lexer: [buffer, ptr, currentLexerName, currentMatch]                    *)
(***************************************************************************)
Lexer(lexerName, buffer) ==
    [buffer |-> buffer, ptr |-> 0,
     currentLexerName |-> lexerName, currentMatch |-> NoToken]

\* switches the keyword table; the cursor and the tokens read stay
selectLexer(L, lexerName) == [L EXCEPT !.currentLexerName = lexerName]

lookAhead(L, k) ==
    IF L.ptr + k < Len(L.buffer) THEN L.buffer[L.ptr + k + 1] ELSE NUL

consume(L, k) == [L EXCEPT !.ptr = @ + k]

RECURSIVE SPorHT(_)
SPorHT(L) ==
    IF lookAhead(L, 0) \in {SP, HT} THEN SPorHT(consume(L, 1)) ELSE L

\* offset just past the identifier run that starts at offset p
RECURSIVE IdEnd(_, _)
IdEnd(buffer, p) ==
    IF p < Len(buffer) /\ isTokenChar(buffer[p + 1])
    THEN IdEnd(buffer, p + 1)
    ELSE p

getNextId(L) == SubSeq(L.buffer, L.ptr + 1, IdEnd(L.buffer, L.ptr))

startsId(L) == isTokenChar(lookAhead(L, 0))

Ok(L)               == [ok |-> TRUE, lexer |-> L, err |-> NoError]
Fail(L, type, off)  == [ok |-> FALSE, lexer |-> L,
                        err |-> [type |-> type, offset |-> off]]

\* match(expected): expected is a token kind or a single character
match(L, tok) ==
    IF tok = ID
    THEN IF ~startsId(L)
         THEN Fail(L, "UnexpectedToken", L.ptr)
         ELSE Ok([L EXCEPT !.ptr = IdEnd(L.buffer, L.ptr),
                           !.currentMatch = [tokenType |-> ID,
                                             tokenValue |-> getNextId(L),
                                             offset |-> L.ptr]])
    ELSE IF tok \in TokenTypes
    THEN IF <<toUpperCase(getNextId(L)), tok>> \in Keywords(L.currentLexerName)
         THEN Ok([L EXCEPT !.ptr = IdEnd(L.buffer, L.ptr),
                           !.currentMatch = [tokenType |-> tok,
                                             tokenValue |-> getNextId(L),
                                             offset |-> L.ptr]])
         ELSE Fail(L, "UnexpectedToken", L.ptr)
    ELSE IF lookAhead(L, 0) = tok
         THEN Ok(consume(L, 1))
         ELSE Fail(L, "UnexpectedCharacter", L.ptr)

\* the token of the last successful match
getNextToken(L) == L.currentMatch

\* offset of the closing quote of a quoted string opened before offset p,
\* or -1 when the buffer ends first
RECURSIVE QuoteEnd(_, _)
QuoteEnd(buffer, p) ==
    IF p >= Len(buffer) THEN -1
    ELSE IF buffer[p + 1] = "\"" THEN p
    ELSE QuoteEnd(buffer, p + 1)

\* quoted-string: the text between two double quotes
quotedString(L) ==
    IF lookAhead(L, 0) # "\""
    THEN [ok |-> FALSE, lexer |-> L, value |-> <<>>,
          err |-> [type |-> "UnexpectedCharacter", offset |-> L.ptr]]
    ELSE IF QuoteEnd(L.buffer, L.ptr + 1) = -1
    THEN [ok |-> FALSE, lexer |-> L, value |-> <<>>,
          err |-> [type |-> "PrematureEndOfInput", offset |-> Len(L.buffer)]]
    ELSE [ok |-> TRUE,
          lexer |-> [L EXCEPT !.ptr = QuoteEnd(L.buffer, L.ptr + 1) + 1],
          value |-> SubSeq(L.buffer, L.ptr + 2, QuoteEnd(L.buffer, L.ptr + 1)),
          err |-> NoError]

(***************************************************************************)
(* HeaderParser.headerName: the header-name token, then ':' with optional  *)
(* whitespace on both sides                                                *)
(***************************************************************************)
headerName(L, tok) ==
    LET m1 == match(L, tok) IN
    IF ~m1.ok
    THEN Fail(m1.lexer, "HeaderNameMismatch", m1.err.offset)
    ELSE LET m2 == match(SPorHT(m1.lexer), ":") IN
         IF ~m2.ok
         THEN Fail(m2.lexer, "HeaderNameMismatch", m2.err.offset)
         ELSE Ok(SPorHT(m2.lexer))

(***************************************************************************)
(* Shared sub-grammars                                                     *)
(***************************************************************************)
NameValue(n, v, hasValue) == [name |-> n, value |-> v, hasValue |-> hasValue]
NoNameValue == NameValue(<<>>, <<>>, FALSE)

ParamOk(L, nv)          == [ok |-> TRUE, lexer |-> L, nv |-> nv, err |-> NoError]
ParamFail(L, type, off) == [ok |-> FALSE, lexer |-> L, nv |-> NoNameValue,
                            err |-> [type |-> type, offset |-> off]]

\* the value after '=': a quoted string or a token
paramValue(L, n) ==
    IF lookAhead(L, 0) = "\""
    THEN LET q == quotedString(L) IN
         IF q.ok THEN ParamOk(q.lexer, NameValue(n, q.value, TRUE))
         ELSE ParamFail(q.lexer, q.err.type, q.err.offset)
    ELSE LET m == match(L, ID) IN
         IF m.ok
         THEN ParamOk(m.lexer, NameValue(n, getNextToken(m.lexer).tokenValue, TRUE))
         ELSE ParamFail(m.lexer, "MalformedAuthParam", m.err.offset)

\* auth-param = token '=' ( token | quoted-string )
authParam(L) ==
    LET m1 == match(L, ID) IN
    IF ~m1.ok THEN ParamFail(m1.lexer, "MalformedAuthParam", m1.err.offset)
    ELSE LET n  == getNextToken(m1.lexer).tokenValue
             m2 == match(m1.lexer, "=") IN
         IF ~m2.ok THEN ParamFail(m2.lexer, "MalformedAuthParam", m2.err.offset)
         ELSE paramValue(m2.lexer, n)

\* generic-param = token [ '=' ( token | quoted-string ) ]
genericParam(L) ==
    LET m1 == match(L, ID) IN
    IF ~m1.ok THEN ParamFail(m1.lexer, m1.err.type, m1.err.offset)
    ELSE LET n == getNextToken(m1.lexer).tokenValue IN
         IF lookAhead(m1.lexer, 0) = "="
         THEN paramValue(consume(m1.lexer, 1), n)
         ELSE ParamOk(m1.lexer, NameValue(n, <<>>, FALSE))

\* offset just past the addr-spec run that starts at offset p
isUriChar(c) == c \notin {SP, HT, NL, ";", "<", ">", "\"", ","}
RECURSIVE UriEnd(_, _)
UriEnd(buffer, p) ==
    IF p < Len(buffer) /\ isUriChar(buffer[p + 1])
    THEN UriEnd(buffer, p + 1)
    ELSE p

Address(d, u) == [displayName |-> d, uri |-> u]
AddrOk(L, a)  == [ok |-> TRUE, lexer |-> L, address |-> a, err |-> NoError]
AddrFail(L, off) == [ok |-> FALSE, lexer |-> L, address |-> Address(<<>>, <<>>),
                     err |-> [type |-> "MalformedAddress", offset |-> off]]

\* addr-spec: a non-empty run of URI characters
addrSpec(L, d) ==
    IF UriEnd(L.buffer, L.ptr) = L.ptr THEN AddrFail(L, L.ptr)
    ELSE AddrOk([L EXCEPT !.ptr = UriEnd(L.buffer, L.ptr)],
                Address(d, SubSeq(L.buffer, L.ptr + 1, UriEnd(L.buffer, L.ptr))))

\* name-addr: '<' addr-spec '>'
nameAddr(L, d) ==
    LET m1 == match(L, "<") IN
    IF ~m1.ok THEN AddrFail(m1.lexer, m1.err.offset)
    ELSE LET a == addrSpec(m1.lexer, d) IN
         IF ~a.ok THEN a
         ELSE LET m2 == match(a.lexer, ">") IN
              IF ~m2.ok THEN AddrFail(m2.lexer, m2.err.offset)
              ELSE AddrOk(m2.lexer, a.address)

\* [display-name] ( name-addr | addr-spec )
address(L) ==
    IF lookAhead(L, 0) = "\""
    THEN LET q == quotedString(L) IN
         IF ~q.ok THEN AddrFail(q.lexer, q.err.offset)
         ELSE nameAddr(SPorHT(q.lexer), q.value)
    ELSE IF lookAhead(L, 0) = "<" THEN nameAddr(L, <<>>)
    ELSE addrSpec(L, <<>>)

(***************************************************************************)
(* Header values                                                           *)
(***************************************************************************)
Undefined == [class |-> "undefined"]

\* named: whether parse called setHeaderName on the element
Supported(named, tag) == [named |-> named, optionTag |-> tag]
SupportedList(hlist)  == [class |-> "SupportedList", hlist |-> hlist]
Authorization(scheme, params) ==
    [class |-> "Authorization", scheme |-> scheme, parameters |-> params]
To(addr, params) ==
    [class |-> "To", address |-> addr, parameters |-> params]

(***************************************************************************)
(* Inputs: a message is a sequence of header lines, a header line a        *)
(* sequence of lexemes (each a sequence of characters)                     *)
(***************************************************************************)
MaxChunks == 3      \* lexemes in the value of a generated Supported header
MaxParams == 2      \* parameters of a generated Authorization or To header

Colon == <<":">>
Comma == <<",">>
Semi  == <<";">>
Sp    == <<SP>>
Nl    == <<NL>>
Lt    == <<"<">>
Gt    == <<">">>
Tag1  == <<"1","0","0","r","e","l">>
Tag2  == <<"t","i","m","e","r">>
Tags  == {Tag1, Tag2}
Digest == <<"D","i","g","e","s","t">>
Uri    == <<"s","i","p",":","b","@","h">>
DisplayName == <<"\"","B","o","b","\"">>
AuthParams == { <<"n","=","1">>, <<"n","=","\"","2","\"">>, <<"n">> }
GenericParams == { <<"t","a","g","=","1">>, <<"l","r">> }

RECURSIVE Concat(_)
Concat(ss) == IF ss = <<>> THEN <<>> ELSE Head(ss) \o Concat(Tail(ss))

SeqsUpTo(S, n) == UNION {[1..k -> S] : k \in 0..n}

NoAdjacentTags(b) == \A i \in 1..(Len(b) - 1) : ~(b[i] \in Tags /\ b[i+1] \in Tags)

Tails == {Nl, <<>>}
OptTail(t) == IF t = <<>> THEN <<>> ELSE <<t>>

SupportedBodies == {b \in SeqsUpTo({Sp, Comma, Tag1, Tag2}, MaxChunks) : NoAdjacentTags(b)}
SupportedHeaders ==
    {<<SupportedName, Colon, Sp>> \o b \o OptTail(t) : b \in SupportedBodies, t \in Tails}
    \cup {<<toUpperCase(SupportedName), Sp, Colon>> \o b \o <<Nl>> :
             b \in {<<>>, <<Tag1>>, <<Tag1, Comma, Tag2>>}}

\* p1 [sep p2 [sep p3 ...]] with every separator drawn from seps
RECURSIVE Joined(_, _, _)
Joined(P, seps, n) ==
    IF n = 0 THEN {<<>>}
    ELSE Joined(P, seps, n - 1)
         \cup {<<p>> : p \in P}
         \cup {<<p>> \o s \o r : p \in P, s \in seps, r \in Joined(P, seps, n - 1) \ {<<>>}}

AuthorizationBodies ==
    {<<Digest, Sp>> \o ps : ps \in Joined(AuthParams, {<<Comma>>, <<Comma, Sp>>}, MaxParams)}
    \cup {<<Digest>>, <<>>, <<Digest, Sp, <<"n","=","1">>, Sp, <<"n","=","1">> >>,
          <<Digest, Sp, <<"n","=","1">>, Comma>>}
AuthorizationHeaders ==
    {<<AuthorizationName, Colon, Sp>> \o b \o OptTail(t) : b \in AuthorizationBodies, t \in Tails}

ToAddresses == { <<Lt, Uri, Gt>>, <<Uri>>, <<DisplayName, Sp, Lt, Uri, Gt>>, <<Lt, Uri>> }
ToParamLists ==
    {Concat([i \in 1..Len(ps) |-> <<Semi, ps[i]>>]) : ps \in SeqsUpTo(GenericParams, MaxParams)}
    \cup {<<Sp, Semi, <<"l","r">> >>, <<Semi>>}
ToHeaders ==
    {<<ToName, Colon, Sp>> \o a \o ps \o OptTail(t) : a \in ToAddresses, ps \in ToParamLists, t \in Tails}
    \cup {<<ToName, Colon, Sp, Nl>>}

\* header lines whose name is not followed by ':', or is no keyword
OddHeaders == { <<SupportedName, Sp, Tag1, Nl>>,
                <<AuthorizationName, Sp, Digest, Sp, <<"n","=","1">>, Nl>>,
                <<ToName, Sp, Lt, Uri, Gt, Nl>>,
                <<<<"S","u","p">>, Colon, Sp, Tag1, Nl>>,
                <<Nl>>, <<>> }

Headers == SupportedHeaders \cup AuthorizationHeaders \cup ToHeaders \cup OddHeaders

\* well-formed header lines, for the messages of two lines
FirstHeaders  == { <<SupportedName, Colon, Sp, Tag1, Nl>>,
                   <<SupportedName, Colon, Sp, Nl>>,
                   <<AuthorizationName, Colon, Sp, Digest, Sp, <<"n","=","1">>, Nl>>,
                   <<ToName, Colon, Sp, Lt, Uri, Gt, Nl>> }
SecondHeaders == { <<ToName, Colon, Sp, Lt, Uri, Gt, Nl>>,
                   <<SupportedName, Colon, Sp, Tag2, Nl>> }

Messages == {<<h>> : h \in Headers}
            \cup {<<h1, h2>> : h1 \in FirstHeaders, h2 \in SecondHeaders}

HeaderText(h) == Concat(h)
MessageText(m) == Concat([i \in 1..Len(m) |-> HeaderText(m[i])])
\* offset at which header i of message m starts
HeaderStart(m, i) == Len(MessageText(SubSeq(m, 1, i - 1)))

(***************************************************************************)
(* State                                                                   *)
(***************************************************************************)
VARIABLES
    message,    \* the header lines given to the parsers (never changes)
    lexers,     \* the Lexer objects; lexers[1] is the caller's lexer over the message
    parsers,    \* the parser objects, in order of construction
    call,            \* the WebRTCommCall object
    webRTCommClient, \* the client that owns the call
    window,          \* the browser: which RTCPeerConnection it offers
    timers,          \* the callbacks given to setTimeout and not yet run, in order
    last             \* the handler that ran last: its name, arguments, trace and exception

parserVars == <<message, lexers, parsers>>
callVars == <<call, webRTCommClient, window, timers, last>>
vars == <<message, lexers, parsers, call, webRTCommClient, window, timers, last>>

Null == [class |-> "null"]
NoException == [class |-> "none", value |-> ""]

\* the object referred to by 'this' and 'that' in the methods of the call
This == [class |-> "WebRTCommCall"]

\* new WebRTCommCall(webRTCommClient), lines 90-113; closes is bookkeeping
\* for the properties: the number of normal returns of close(), up to two
WebRTCommCall ==
    [calleePhoneNumber |-> Undefined,
     configuration |-> Undefined,
     connector |-> Undefined,
     peerConnection |-> Undefined,
     peerConnectionState |-> "undefined",
     messageChannel |-> Undefined,
     closes |-> 0]

\* no handler has run yet
NoHandler == [op |-> "", args |-> <<>>, calls |-> <<>>, thrown |-> NoException]

ParserIds == {1, 2}     \* the caller builds at most two parsers

\* a parser object; start, hdr and idMatches are bookkeeping for the
\* properties: the cursor at construction, the header line that starts
\* there (0 when none does) and the number of match(ID) calls made by
\* SupportedParser.parse
Parser(classname, lexer, start, hdr) ==
    [classname |-> classname, lexer |-> lexer, pc |-> "headerName",
     err |-> NoError, ret |-> Undefined,
     supportedList |-> Undefined, auth |-> Undefined, to |-> Undefined,
     start |-> start, hdr |-> hdr, idMatches |-> 0]

Finished(p) == p.pc \in {"returned", "thrown"}
Idle == IF parsers = <<>> THEN TRUE ELSE Finished(parsers[Len(parsers)])

HeaderAt(off) ==
    IF \E i \in 1..Len(message) : HeaderStart(message, i) = off
    THEN CHOOSE i \in 1..Len(message) : HeaderStart(message, i) = off
    ELSE 0

Init ==
    /\ message \in Messages
    /\ \E ctx \in Contexts : lexers = <<Lexer(ctx, MessageText(message))>>
    /\ parsers = <<>>
    /\ call = WebRTCommCall
    /\ webRTCommClient = [opened |-> FALSE]
    /\ window = "webkitRTCPeerConnection"
    /\ timers = <<>>
    /\ last = NoHandler

(***************************************************************************)
(* Constructors: arguments[0] is a Lexer object or a string                *)
(***************************************************************************)
\* what a caller passes as arguments[0]: its lexer, or the text of a header
Arguments ==
    {[type |-> "object", lexer |-> 1, header |-> 0]}
    \cup {[type |-> "string", lexer |-> 0, header |-> i] : i \in 1..Len(message)}

\* NewFromLexer without the call of selectLexer
NewFromLexer_noSelect(classname, id) ==
    /\ lexers' = lexers
    /\ parsers' = Append(parsers,
                         Parser(classname, id, lexers[id].ptr, HeaderAt(lexers[id].ptr)))

\* NewFromLexer starting the borrowed lexer again at the head of its text
NewFromLexer_rewind(classname, id) ==
    /\ lexers' = [lexers EXCEPT ![id] = Lexer("command_keywordLexer", @.buffer)]
    /\ parsers' = Append(parsers,
                         Parser(classname, id, lexers[id].ptr, HeaderAt(lexers[id].ptr)))

\* typeof arguments[0] == "object": borrow the lexer and select the context
NewFromLexer(classname, id) ==
    /\ lexers' = [lexers EXCEPT ![id] = selectLexer(@, "command_keywordLexer")]
    /\ parsers' = Append(parsers,
                         Parser(classname, id, lexers[id].ptr, HeaderAt(lexers[id].ptr)))

\* NewFromString keeping one lexer for all the parsers made from strings
NewFromString_sharedLexer(classname, i) ==
    IF Len(lexers) > 1
    THEN /\ lexers' = lexers
         /\ parsers' = Append(parsers, Parser(classname, Len(lexers), 0, i))
    ELSE /\ lexers' = Append(lexers, Lexer("command_keywordLexer", HeaderText(message[i])))
         /\ parsers' = Append(parsers, Parser(classname, Len(lexers) + 1, 0, i))

\* typeof arguments[0] == "string": own a new lexer over the string
NewFromString(classname, i) ==
    /\ lexers' = Append(lexers, Lexer("command_keywordLexer", HeaderText(message[i])))
    /\ parsers' = Append(parsers, Parser(classname, Len(lexers) + 1, 0, i))

New(classname, arg) ==
    /\ Idle
    /\ Len(parsers) + 1 \in ParserIds
    /\ IF arg.type = "object"
       THEN NewFromLexer(classname, arg.lexer)
       ELSE NewFromString(classname, arg.header)
    /\ UNCHANGED <<message, callVars>>

\* SupportedParser.js lines 31-45, AuthorizationParser.js lines 31-45 and
\* the ToParser source, lines 31-45
SupportedParser     == \E arg \in Arguments : New("SupportedParser", arg)
AuthorizationParser == \E arg \in Arguments : New("AuthorizationParser", arg)
ToParser            == \E arg \in Arguments : New("ToParser", arg)

(***************************************************************************)
(* Steps of the running parser                                             *)
(***************************************************************************)
this  == parsers[Len(parsers)]
lexer == lexers[this.lexer]

At(classname, pc) ==
    /\ parsers # <<>>
    /\ this.classname = classname
    /\ this.pc = pc

\* the parser becomes p and its lexer L
Step(p, L) ==
    /\ parsers' = [parsers EXCEPT ![Len(parsers)] = p]
    /\ lexers' = [lexers EXCEPT ![this.lexer] = L]
    /\ UNCHANGED <<message, callVars>>

Goto(p, pc)   == [p EXCEPT !.pc = pc]
Throw(p, err) == [p EXCEPT !.pc = "thrown", !.err = err]
Return(p, v)  == [p EXCEPT !.pc = "returned", !.ret = v]

\* SupportedParser_parse_headerName expecting the wrong keyword
SupportedParser_parse_headerName_wrongKind ==
    /\ At("SupportedParser", "headerName")
    /\ LET p == [this EXCEPT !.supportedList = SupportedList(<<>>)]
           h == headerName(lexer, TO) IN
       IF h.ok THEN Step(Goto(p, "while"), h.lexer)
       ELSE Step(Throw(p, h.err), h.lexer)

\* SupportedParser.parse, lines 53-54
SupportedParser_parse_headerName ==
    /\ At("SupportedParser", "headerName")
    /\ LET p == [this EXCEPT !.supportedList = SupportedList(<<>>)]
           h == headerName(lexer, SUPPORTED) IN
       IF h.ok THEN Step(Goto(p, "while"), h.lexer)
       ELSE Step(Throw(p, h.err), h.lexer)

\* ReadTag catching the failure and handing back the list read so far
ReadTag_returnsPartial(p, L, named) ==
    LET m == match(L, ID)
        q == [p EXCEPT !.idMatches = @ + 1] IN
    IF ~m.ok
    THEN [ok |-> FALSE,
          parser |-> [q EXCEPT !.pc = "returned", !.err = m.err, !.ret = q.supportedList],
          lexer |-> m.lexer]
    ELSE [ok |-> TRUE,
          parser |-> [q EXCEPT !.supportedList.hlist =
                         Append(@, Supported(named, getNextToken(m.lexer).tokenValue))],
          lexer |-> SPorHT(m.lexer)]

\* ReadTag taking a failed match(ID) for an empty tag instead of throwing
ReadTag_emptyTag(p, L, named) ==
    LET m == match(L, ID) IN
    IF ~m.ok THEN [ok |-> TRUE, parser |-> p, lexer |-> L]
    ELSE [ok |-> TRUE,
          parser |-> [p EXCEPT !.idMatches = @ + 1,
                               !.supportedList.hlist =
                         Append(@, Supported(named, getNextToken(m.lexer).tokenValue))],
          lexer |-> SPorHT(m.lexer)]

\* one Supported element: match(ID), getNextToken, setOptionTag, SPorHT, add
ReadTag(p, L, named) ==
    LET m == match(L, ID)
        q == [p EXCEPT !.idMatches = @ + 1] IN
    IF ~m.ok THEN [ok |-> FALSE, parser |-> Throw(q, m.err), lexer |-> m.lexer]
    ELSE [ok |-> TRUE,
          parser |-> [q EXCEPT !.supportedList.hlist =
                         Append(@, Supported(named, getNextToken(m.lexer).tokenValue))],
          lexer |-> SPorHT(m.lexer)]

\* SupportedParser_parse_while reading the first tag before any test
SupportedParser_parse_while_doWhile ==
    /\ At("SupportedParser", "while")
    /\ IF lookAhead(lexer, 0) # NL \/ this.supportedList.hlist = <<>>
       THEN LET r == ReadTag(this, SPorHT(lexer), TRUE) IN
            IF r.ok THEN Step(Goto(r.parser, "comma"), r.lexer)
            ELSE Step(r.parser, r.lexer)
       ELSE Step(Return(this, this.supportedList), lexer)

\* SupportedParser_parse_while stepping over a ',' in front of a tag
SupportedParser_parse_while_skipComma ==
    /\ At("SupportedParser", "while")
    /\ IF lookAhead(lexer, 0) # NL
       THEN LET L0 == SPorHT(lexer)
                L1 == IF lookAhead(L0, 0) = "," THEN SPorHT(consume(L0, 1)) ELSE L0
                r  == ReadTag(this, L1, TRUE) IN
            IF r.ok THEN Step(Goto(r.parser, "comma"), r.lexer)
            ELSE Step(r.parser, r.lexer)
       ELSE Step(Return(this, this.supportedList), lexer)

\* SupportedParser.parse, lines 55-63 and 76: the outer loop test, then the
\* first tag of an iteration or the return
SupportedParser_parse_while ==
    /\ At("SupportedParser", "while")
    /\ IF lookAhead(lexer, 0) # NL
       THEN LET r == ReadTag(this, SPorHT(lexer), TRUE) IN
            IF r.ok THEN Step(Goto(r.parser, "comma"), r.lexer)
            ELSE Step(r.parser, r.lexer)
       ELSE Step(Return(this, this.supportedList), lexer)

\* SupportedParser_parse_comma without supportedList.add
SupportedParser_parse_comma_noAdd ==
    /\ At("SupportedParser", "comma")
    /\ IF lookAhead(lexer, 0) = ","
       THEN LET m == match(lexer, ",")
                r == ReadTag(this, SPorHT(m.lexer), FALSE) IN
            Step([r.parser EXCEPT !.supportedList = this.supportedList], r.lexer)
       ELSE Step(Goto(this, "while"), lexer)

\* SupportedParser_parse_comma reading a tag after ',' only when one is there
SupportedParser_parse_comma_optionalTag ==
    /\ At("SupportedParser", "comma")
    /\ IF lookAhead(lexer, 0) = ","
       THEN LET m == match(lexer, ",")
                r == ReadTag(this, SPorHT(m.lexer), FALSE) IN
            IF startsId(SPorHT(m.lexer))
            THEN Step(r.parser, r.lexer)
            ELSE Step(Goto(this, "while"), SPorHT(m.lexer))
       ELSE Step(Goto(this, "while"), lexer)

\* SupportedParser.parse, lines 64-73: the inner loop test, then one more
\* tag or the way back to the outer loop
SupportedParser_parse_comma ==
    /\ At("SupportedParser", "comma")
    /\ IF lookAhead(lexer, 0) = ","
       THEN LET m == match(lexer, ",")
                r == ReadTag(this, SPorHT(m.lexer), FALSE) IN
            Step(r.parser, r.lexer)
       ELSE Step(Goto(this, "while"), lexer)

\* AuthorizationParser.parse, lines 52-53
AuthorizationParser_parse_headerName ==
    /\ At("AuthorizationParser", "headerName")
    /\ LET h == headerName(lexer, AUTHORIZATION) IN
       IF h.ok
       THEN Step(Goto([this EXCEPT !.auth = Authorization(<<>>, <<>>)], "scheme"), h.lexer)
       ELSE Step(Throw(this, h.err), h.lexer)

\* ChallengeParser.parse: the scheme token
ChallengeParser_parse_scheme ==
    /\ At("AuthorizationParser", "scheme")
    /\ LET m == match(SPorHT(lexer), ID) IN
       IF m.ok
       THEN Step(Goto([this EXCEPT !.auth.scheme = getNextToken(m.lexer).tokenValue],
                      "param"),
                 SPorHT(m.lexer))
       ELSE Step(Throw(this, m.err), m.lexer)

\* ChallengeParser.parse: the first auth-param
ChallengeParser_parse_param ==
    /\ At("AuthorizationParser", "param")
    /\ LET a == authParam(lexer) IN
       IF a.ok
       THEN Step(Goto([this EXCEPT !.auth.parameters = Append(@, a.nv)], "comma"), a.lexer)
       ELSE Step(Throw(this, a.err), a.lexer)

\* ChallengeParser.parse: while the lookahead is ',', one more auth-param
ChallengeParser_parse_comma ==
    /\ At("AuthorizationParser", "comma")
    /\ IF lookAhead(lexer, 0) = ","
       THEN LET a == authParam(SPorHT(consume(lexer, 1))) IN
            IF a.ok
            THEN Step([this EXCEPT !.auth.parameters = Append(@, a.nv)], a.lexer)
            ELSE Step(Throw(this, a.err), a.lexer)
       ELSE Step(Goto(this, "return"), lexer)

\* AuthorizationParser_parse_return handing back a new Authorization
AuthorizationParser_parse_return_fresh ==
    /\ At("AuthorizationParser", "return")
    /\ Step(Return(this, Authorization(<<>>, <<>>)), lexer)

\* AuthorizationParser.parse, line 55
AuthorizationParser_parse_return ==
    /\ At("AuthorizationParser", "return")
    /\ Step(Return(this, this.auth), lexer)

\* ToParser.parse, lines 52-53
ToParser_parse_headerName ==
    /\ At("ToParser", "headerName")
    /\ LET h == headerName(lexer, TO) IN
       IF h.ok
       THEN Step(Goto([this EXCEPT !.to = To(Address(<<>>, <<>>), <<>>)], "address"), h.lexer)
       ELSE Step(Throw(this, h.err), h.lexer)

\* AddressParametersParser.parse: the address
AddressParametersParser_parse_address ==
    /\ At("ToParser", "address")
    /\ LET a == address(lexer) IN
       IF a.ok
       THEN Step(Goto([this EXCEPT !.to.address = a.address], "semi"), a.lexer)
       ELSE Step(Throw(this, a.err), a.lexer)

\* AddressParametersParser.parse: while the lookahead is ';', one more
\* generic-param
AddressParametersParser_parse_semi ==
    /\ At("ToParser", "semi")
    /\ IF lookAhead(lexer, 0) = ";"
       THEN LET g == genericParam(consume(lexer, 1)) IN
            IF g.ok
            THEN Step([this EXCEPT !.to.parameters = Append(@, g.nv)], g.lexer)
            ELSE Step(Throw(this, g.err), g.lexer)
       ELSE Step(Goto(this, "newline"), lexer)

\* ToParser_parse_newline without the match of the newline
ToParser_parse_newline_noMatch ==
    /\ At("ToParser", "newline")
    /\ Step(Return(this, this.to), lexer)

\* ToParser.parse, lines 55-56
ToParser_parse_newline ==
    /\ At("ToParser", "newline")
    /\ LET m == match(lexer, NL) IN
       IF m.ok THEN Step(Return(this, this.to), m.lexer)
       ELSE Step(Throw(this, m.err), m.lexer)

Next ==
    \/ SupportedParser
    \/ AuthorizationParser
    \/ ToParser
    \/ SupportedParser_parse_headerName
    \/ SupportedParser_parse_while
    \/ SupportedParser_parse_comma
    \/ AuthorizationParser_parse_headerName
    \/ ChallengeParser_parse_scheme
    \/ ChallengeParser_parse_param
    \/ ChallengeParser_parse_comma
    \/ AuthorizationParser_parse_return
    \/ ToParser_parse_headerName
    \/ AddressParametersParser_parse_address
    \/ AddressParametersParser_parse_semi
    \/ ToParser_parse_newline

Spec == Init /\ [][Next]_vars

(***************************************************************************)
(* WebRTCommCall: the objects it works with.  Every JavaScript value is a  *)
(* record with a class; the connector, the peer connection, the message    *)
(* channel, the listener and the timers belong to the client and to the    *)
(* browser, and any call into them may throw.                              *)
(***************************************************************************)
MaxTimers == 2       \* handlers start only with room for the callbacks they schedule
MaxMedia == 3        \* the media descriptions of a session description

Truthy(v) == v.class \notin {"undefined", "null"}

typeof(v) ==
    IF v.class = "undefined" THEN "undefined"
    ELSE IF v.class = "String" THEN "string"
    ELSE "object"

String(value) == [class |-> "String", value |-> value]
StringException(value) == [class |-> "string", value |-> value]
Error(name) == [class |-> "Error", value |-> name]
\* what a call into the connector or the browser throws when it fails, and
\* what a member of undefined throws
Exception == Error("Error")
TypeError == Error("TypeError")

PrivateCallConnector(opened) == [class |-> "PrivateCallConnector", opened |-> opened]
\* a new peer connection; pending, invites and opened are bookkeeping: the
\* operations the browser has not answered yet, the normal returns of
\* connector.invite and the opened events scheduled since it was made, each
\* counted up to two
RTCPeerConnection ==
    [class |-> "RTCPeerConnection", signalingState |-> "stable", pending |-> {},
     invites |-> 0, opened |-> 0]
RTCDataChannel(readyState) == [class |-> "RTCDataChannel", readyState |-> readyState]

\* a configuration object; a member is "undefined" when it is missing
Configuration(localMediaStream, audioMediaFlag, videoMediaFlag, messageMediaFlag) ==
    [class |-> "Object",
     localMediaStream |-> localMediaStream,
     audioMediaFlag |-> audioMediaFlag,
     videoMediaFlag |-> videoMediaFlag,
     messageMediaFlag |-> messageMediaFlag]

\* what callers pass as configuration
Configurations ==
    {String("alice"), Null,
     Configuration("LocalMediaStream", "true", "false", "true"),
     Configuration("undefined", "true", "true", "false")}

PhoneNumbers == {String("bob@sip.net")}

\* a session description, as the browser gives it and as SDPParser reads
\* it: the media types of its media descriptions, in order
MediaTypes == {"audio", "video"}
RTCSessionDescription(sdp) == [class |-> "RTCSessionDescription", sdp |-> sdp]
SdpOffers == {RTCSessionDescription(sdp) : sdp \in SeqsUpTo(MediaTypes, MaxMedia)}
ShortMessages == {String("hello")}

\* the calls of close() that may throw, and none
CloseFailures == {"none", "connector.close", "peerConnection.close"}
OpenFailures ==
    {"none", "connector.open", "createRTCPeerConnection", "addStream",
     "createDataChannel", "createOffer"}
AcceptFailures == {"none", "createRTCPeerConnection", "addStream", "setRemoteDescription"}
CallbackFailures == {"none", "throws"}
\* what iceGatheringState of the peer connection holds when an event arrives
IceGatheringStates == {"gathering", "complete"}
\* what the local media stream may lack: a signalingState equal to its
\* LIVE, and the tracks
StreamFailures == {"none", "signalingState", "tracks"}

(***************************************************************************)
(* A handler runs on a frame [call, timers, calls]: the call object, the   *)
(* timers, and the trace of the calls it has made so far.  It yields the   *)
(* frame it leaves and the exception it throws.                            *)
(***************************************************************************)
Frame == [call |-> call, timers |-> timers, calls |-> <<>>]
Result(s, thrown) == [s |-> s, thrown |-> thrown]
Invoke(s, fn, arg) == [s EXCEPT !.calls = Append(@, [fn |-> fn, arg |-> arg])]
setTimeout(s, handler, that, error) ==
    [s EXCEPT !.timers = Append(@, [handler |-> handler, that |-> that, error |-> error])]
Fns(calls) == {calls[k].fn : k \in 1..Len(calls)}

\* lines 130-133
isOpened(c) == IF Truthy(c.connector) THEN c.connector.opened ELSE FALSE

isBoolean(flag) == flag \in {"true", "false"}

\* lines 835-866, for a configuration that has members
checkConfiguration(configuration) ==
    /\ configuration.localMediaStream # "undefined"
    /\ isBoolean(configuration.audioMediaFlag)
    /\ isBoolean(configuration.videoMediaFlag)
    /\ isBoolean(configuration.messageMediaFlag)

\* the end of close(): noted in the trace, and counted when it is normal
Closed(s, thrown) ==
    LET n == IF thrown = NoException /\ s.call.closes < 2
             THEN s.call.closes + 1 ELSE s.call.closes IN
    Result(Invoke([s EXCEPT !.call.closes = n], "this.close", thrown), thrown)

\* close() closing without the test of the client
close_anyClient(s, fail) ==
    LET hasConnector == Truthy(s.call.connector)
        s1 == IF hasConnector THEN Invoke(s, "connector.close", Undefined) ELSE s
        s2 == IF hasConnector THEN [s1 EXCEPT !.call.connector.opened = FALSE] ELSE s1
        s4 == Invoke(s2, "peerConnection.close", Undefined)
        s5 == setTimeout([s4 EXCEPT !.call.peerConnection = Undefined],
                         "onWebRTCommCallClosedEvent", This, Undefined) IN
    IF Truthy(s2.call.peerConnection)
    THEN Closed(s5, NoException)
    ELSE Closed(s2, NoException)

\* lines 360-394; an exception of the connector or of the peer connection
\* is caught and logged, which the trace shows as "catch"
close(s, fail) ==
    IF ~webRTCommClient.opened
    THEN Closed(s, StringException("WebRTCommCall:close(): bad state, unauthorized action"))
    ELSE LET hasConnector == Truthy(s.call.connector)
             s1 == IF hasConnector THEN Invoke(s, "connector.close", Undefined) ELSE s
             s2 == IF hasConnector THEN [s1 EXCEPT !.call.connector.opened = FALSE] ELSE s1
             s3 == IF Truthy(s2.call.messageChannel)
                   THEN Invoke([s2 EXCEPT !.call.messageChannel.readyState = "closed"],
                               "messageChannel.close", Undefined)
                   ELSE s2
             s4 == Invoke(s3, "peerConnection.close", Undefined)
             s5 == setTimeout([s4 EXCEPT !.call.peerConnection = Undefined],
                              "onWebRTCommCallClosedEvent", This, Undefined) IN
         IF hasConnector /\ fail = "connector.close"
         THEN Closed(Invoke(s1, "catch", Exception), NoException)
         ELSE IF Truthy(s2.call.peerConnection)
              THEN IF s2.call.peerConnection.signalingState # "closed"
                   THEN IF fail = "peerConnection.close"
                        THEN Closed(Invoke(s4, "catch", Exception), NoException)
                        ELSE Closed(s5, NoException)
                   ELSE Closed(s2, NoException)
              ELSE Closed(s2, NoException)

\* lines 872-944: the state is set before the connection is made
createRTCPeerConnection(s, fail) ==
    LET s1 == [s EXCEPT !.call.peerConnectionState = "new"] IN
    IF fail = "createRTCPeerConnection" THEN Result(s1, Exception)
    ELSE Result(Invoke([s1 EXCEPT !.call.peerConnection = RTCPeerConnection],
                       "new RTCPeerConnection", Undefined),
                NoException)

\* the catch clause of open(), lines 314-329; 'that' is what the variable
\* of this name holds when the exception arrives
open_catch(s, that, exception, closeFail) ==
    Result(close(setTimeout(s, "onWebRTCommCallOpenErrorEvent", that, exception),
                 closeFail).s,
           exception)

\* the try block of open(), lines 241-313; 'that' is assigned at line 250,
\* after addStream; without createDataChannel, or when it throws (lines
\* 263-288), open() goes on without a message channel
open_try(s, calleePhoneNumber, configuration, fail, closeFail) ==
    LET a0 == [s EXCEPT !.call.calleePhoneNumber = calleePhoneNumber,
                        !.call.configuration = configuration]
        a1 == Invoke([a0 EXCEPT !.call.connector.opened = TRUE],
                     "connector.open", configuration)
        a2 == createRTCPeerConnection(a1, fail)
        a3 == Invoke(a2.s, "peerConnection.addStream", Undefined)
        a4 == IF configuration.messageMediaFlag = "true" /\ fail # "createDataChannel"
              THEN Invoke([a3 EXCEPT !.call.messageChannel = RTCDataChannel("connecting")],
                          "peerConnection.createDataChannel", Undefined)
              ELSE a3
        a5 == Invoke(a4, "peerConnection.createOffer", Undefined) IN
    IF ~Truthy(s.call.connector)
    THEN open_catch(a0, Undefined, TypeError, closeFail)
    ELSE IF fail = "connector.open"
    THEN open_catch(Invoke(a0, "connector.open", configuration), Undefined,
                    Exception, closeFail)
    ELSE IF a2.thrown # NoException
    THEN open_catch(a2.s, Undefined, a2.thrown, closeFail)
    ELSE IF fail = "addStream"
    THEN open_catch(a3, Undefined, Exception, closeFail)
    ELSE IF fail = "createOffer"
    THEN open_catch(a5, This, Exception, closeFail)
    ELSE Result([a5 EXCEPT !.call.peerConnection.pending = @ \cup {"createOffer"}],
                NoException)

\* open storing its arguments before it tests them
open_storesFirst(s, calleePhoneNumber, configuration, fail, closeFail) ==
    LET s0 == [s EXCEPT !.call.calleePhoneNumber = calleePhoneNumber,
                        !.call.configuration = configuration] IN
    IF typeof(configuration) # "object"
    THEN Result(s0, StringException("WebRTCommCall:open(): bad argument, check API documentation"))
    ELSE IF ~webRTCommClient.opened
    THEN Result(s0, StringException("WebRTCommCall:open(): bad state, unauthorized action"))
    ELSE IF configuration = Null
    THEN Result(s0, TypeError)
    ELSE IF ~checkConfiguration(configuration)
    THEN Result(s0, StringException("WebRTCommCall:open(): bad configuration"))
    ELSE IF isOpened(s.call)
    THEN Result(s0, StringException("WebRTCommCall:open(): bad state, unauthorized action"))
    ELSE open_try(s, calleePhoneNumber, configuration, fail, closeFail)

\* lines 230-352
open(s, calleePhoneNumber, configuration, fail, closeFail) ==
    IF typeof(configuration) # "object"
    THEN Result(s, StringException("WebRTCommCall:open(): bad argument, check API documentation"))
    ELSE IF ~webRTCommClient.opened
    THEN Result(s, StringException("WebRTCommCall:open(): bad state, unauthorized action"))
    ELSE IF configuration = Null
    THEN Result(s, TypeError)
    ELSE IF ~checkConfiguration(configuration)
    THEN Result(s, StringException("WebRTCommCall:open(): bad configuration"))
    ELSE IF isOpened(s.call)
    THEN Result(s, StringException("WebRTCommCall:open(): bad state, unauthorized action"))
    ELSE open_try(s, calleePhoneNumber, configuration, fail, closeFail)

\* the try block of accept() and its catch clause, lines 424-459
accept_try(s, fail, closeFail) ==
    LET a1 == createRTCPeerConnection(s, fail)
        a2 == Invoke(a1.s, "peerConnection.addStream", Undefined)
        a3 == Invoke([a2 EXCEPT !.call.peerConnectionState = "offer-received"],
                     "peerConnection.setRemoteDescription", Undefined) IN
    IF a1.thrown # NoException
    THEN Result(close(a1.s, closeFail).s, a1.thrown)
    ELSE IF fail = "addStream"
    THEN Result(close(a2, closeFail).s, Exception)
    ELSE IF fail = "setRemoteDescription"
    THEN Result(close(a3, closeFail).s, Exception)
    ELSE Result([a3 EXCEPT !.call.peerConnection.pending = @ \cup {"setRemoteDescription"}],
                NoException)

\* lines 414-485: the configuration is stored before the state is tested
accept(s, configuration, fail, closeFail) ==
    IF typeof(configuration) # "object"
    THEN Result(s, StringException("WebRTCommCall:accept(): bad argument, check API documentation"))
    ELSE IF ~webRTCommClient.opened
    THEN Result(s, StringException("WebRTCommCall:accept(): bad state, unauthorized action"))
    ELSE IF configuration = Null
    THEN Result(s, TypeError)
    ELSE IF ~checkConfiguration(configuration)
    THEN Result(s, StringException("WebRTCommCall:accept(): bad configuration"))
    ELSE IF isOpened(s.call)
    THEN Result([s EXCEPT !.call.configuration = configuration],
                StringException("WebRTCommCall:accept(): bad state, unauthorized action"))
    ELSE accept_try([s EXCEPT !.call.configuration = configuration], fail, closeFail)

\* sendMessage sending on any message channel, whatever its readyState
sendMessage_anyReadyState(s, shortMessage, fail) ==
    IF ~webRTCommClient.opened \/ ~isOpened(s.call)
    THEN Result(s, StringException("WebRTCommCall:sendMessage(): bad state, unauthorized action"))
    ELSE IF ~Truthy(s.call.messageChannel)
    THEN Result(s, StringException("WebRTCommCall:sendMessage(): bad state, unauthorized action, messageChannel not opened"))
    ELSE IF fail = "throws"
    THEN Result(Invoke(s, "messageChannel.send", shortMessage),
                StringException("WebRTCommCall:sendMessage(): catched exception:"))
    ELSE Result(Invoke(s, "messageChannel.send", shortMessage), NoException)

\* lines 525-560
sendMessage(s, shortMessage, fail) ==
    IF ~webRTCommClient.opened \/ ~isOpened(s.call)
    THEN Result(s, StringException("WebRTCommCall:sendMessage(): bad state, unauthorized action"))
    ELSE IF ~Truthy(s.call.messageChannel)
    THEN Result(s, StringException("WebRTCommCall:sendMessage(): bad state, unauthorized action, messageChannel not opened"))
    ELSE IF s.call.messageChannel.readyState # "open"
    THEN Result(s, StringException("WebRTCommCall:sendMessage(): bad state, unauthorized action, messageChannel not opened"))
    ELSE IF fail = "throws"
    THEN Result(Invoke(s, "messageChannel.send", shortMessage),
                StringException("WebRTCommCall:sendMessage(): catched exception:"))
    ELSE Result(Invoke(s, "messageChannel.send", shortMessage), NoException)

\* lines 568-593, 599-625, 698-724 and 732-758: the four methods differ in
\* their name, in the tracks they take and in the value they give to
\* enabled; this.configuration is read before anything is tested
LocalMediaStreamTracks(s, method, tracks, enabled, fail) ==
    IF ~Truthy(s.call.configuration) THEN Result(s, TypeError)
    ELSE IF s.call.configuration.localMediaStream = "undefined"
    THEN Result(s, StringException(method \o "bad state, unauthorized action"))
    ELSE IF fail = "signalingState"
    THEN Result(s, StringException(method \o "bad state, unauthorized action"))
    ELSE IF fail = "tracks"
    THEN Result(s, StringException(method \o "not implemented by navigator"))
    ELSE Result(Invoke(s, tracks, [class |-> "Boolean", enabled |-> enabled]),
                NoException)

muteLocalAudioMediaStream(s, fail) ==
    LocalMediaStreamTracks(s, "WebRTCommCall:muteLocalAudioMediaStream(): ",
                           "audioTracks[i].enabled", FALSE, fail)

unmuteLocalAudioMediaStream(s, fail) ==
    LocalMediaStreamTracks(s, "WebRTCommCall:unmuteLocalAudioMediaStream(): ",
                           "audioTracks[i].enabled", TRUE, fail)

hideLocalVideoMediaStream(s, fail) ==
    LocalMediaStreamTracks(s, "WebRTCommCall:hideLocalVideoMediaStream(): ",
                           "videoTracks[i].enabled", FALSE, fail)

showLocalVideoMediaStream(s, fail) ==
    LocalMediaStreamTracks(s, "WebRTCommCall:showLocalVideoMediaStream(): ",
                           "videoTracks[i].enabled", TRUE, fail)

\* lines 962-995: the exception of setRemoteDescription is thrown again
onPrivateCallConnectorRemoteSdpAnswerEvent(s, fail) ==
    LET s1 == [s EXCEPT !.call.peerConnectionState = "answer-received"]
        s2 == Invoke(s1, "peerConnection.setRemoteDescription", Undefined) IN
    IF ~Truthy(s.call.peerConnection) THEN Result(s1, TypeError)
    ELSE IF fail = "throws" THEN Result(s2, Exception)
    ELSE Result([s2 EXCEPT !.call.peerConnection.pending = @ \cup {"setRemoteDescription"}],
                NoException)

\* lines 1123-1131
onPrivateCallConnectorCallClosedEvent(s, closeFail) ==
    Result(close([s EXCEPT !.call.connector = Undefined], closeFail).s, NoException)

\* lines 1162-1183
onRtcPeerConnectionErrorEvent(s, error, closeFail) ==
    Result(close(setTimeout(s, "onWebRTCommCallOpenErrorEvent", This, error),
                 closeFail).s,
           NoException)

\* lines 2189-2218: the first media description of the type is removed,
\* and the loop ends there
removeMediaDescription(sessionDescription, mediaTypeToRemove) ==
    LET found == {i \in 1..Len(sessionDescription) :
                    sessionDescription[i] = mediaTypeToRemove} IN
    IF found = {} THEN sessionDescription
    ELSE LET i == CHOOSE k \in found : \A j \in found : k <= j IN
         SubSeq(sessionDescription, 1, i - 1)
            \o SubSeq(sessionDescription, i + 1, Len(sessionDescription))

\* lines 1322-1390; of the session description only the media
\* descriptions are represented, and whether its processing throws
onRtcPeerConnectionCreateOfferSuccessEvent(s, sdpOffer, fail, closeFail) ==
    LET s1 == [s EXCEPT !.call.peerConnectionState = "preparing-offer"]
        parsedSdpOffer == sdpOffer.sdp
        noVideo == IF s.call.configuration.videoMediaFlag = "false"
                   THEN removeMediaDescription(parsedSdpOffer, "video")
                   ELSE parsedSdpOffer
        noAudio == IF s.call.configuration.audioMediaFlag = "false"
                   THEN removeMediaDescription(noVideo, "audio")
                   ELSE noVideo
        s2 == Invoke(s1, "peerConnection.setLocalDescription",
                     RTCSessionDescription(noAudio)) IN
    IF ~Truthy(s.call.peerConnection) THEN Result(s, NoException)
    ELSE IF s.call.peerConnectionState # "new" THEN Result(s, NoException)
    ELSE IF fail = "throws" THEN onRtcPeerConnectionErrorEvent(s2, Undefined, closeFail)
    ELSE Result([s2 EXCEPT !.call.peerConnection.pending = @ \cup {"setLocalDescription"}],
                NoException)

\* lines 1396-1418
onRtcPeerConnectionCreateOfferErrorEvent(s, error, closeFail) ==
    IF Truthy(s.call.peerConnection)
    THEN onRtcPeerConnectionErrorEvent(s, Undefined, closeFail)
    ELSE Result(s, NoException)

\* the opened event is scheduled for the listener, lines 1275-1287
OpenedEvent(s) ==
    setTimeout([s EXCEPT !.call.peerConnection.opened = IF @ < 2 THEN @ + 1 ELSE @],
               "onWebRTCommCallOpenedEvent", This, Undefined)

\* connector.invite or connector.accept is called and the state stays
ConnectorCall_keepsState(s, fn, state, fail) ==
    LET s1 == Invoke(s, fn, Undefined)
        invites == s.call.peerConnection.invites
        s2 == IF fn = "connector.invite" /\ invites < 2
              THEN [s1 EXCEPT !.call.peerConnection.invites = invites + 1]
              ELSE s1 IN
    IF ~Truthy(s.call.connector) THEN Result(s, TypeError)
    ELSE IF fail = "throws" THEN Result(s1, Exception)
    ELSE Result(s2, NoException)

\* connector.invite or connector.accept is called and the state follows,
\* lines 1267-1268 and 1272-1273; without a connector the call throws
ConnectorCall(s, fn, state, fail) ==
    LET s1 == Invoke(s, fn, Undefined)
        invites == s.call.peerConnection.invites
        s2 == IF fn = "connector.invite" /\ invites < 2
              THEN [s1 EXCEPT !.call.peerConnection.invites = invites + 1]
              ELSE s1 IN
    IF ~Truthy(s.call.connector) THEN Result(s, TypeError)
    ELSE IF fail = "throws" THEN Result(s1, Exception)
    ELSE Result([s2 EXCEPT !.call.peerConnectionState = state], NoException)

\* the offer is sent in any state but 'preparing-answer'
LocalDescriptionReady_anyState(s, fail) ==
    LET accepted == ConnectorCall(s, "connector.accept", "established", fail) IN
    IF s.call.peerConnectionState = "preparing-answer"
    THEN IF accepted.thrown = NoException
         THEN Result(OpenedEvent(accepted.s), NoException)
         ELSE accepted
    ELSE ConnectorCall(s, "connector.invite", "offer-sent", fail)

\* the local description is ready: lines 1265-1298, the same as lines
\* 1437-1470 and 1774-1807
LocalDescriptionReady(s, fail) ==
    LET accepted == ConnectorCall(s, "connector.accept", "established", fail) IN
    IF s.call.peerConnectionState = "preparing-offer"
    THEN ConnectorCall(s, "connector.invite", "offer-sent", fail)
    ELSE IF s.call.peerConnectionState = "preparing-answer"
    THEN IF accepted.thrown = NoException
         THEN Result(OpenedEvent(accepted.s), NoException)
         ELSE accepted
    ELSE Result(s, NoException)

\* lines 1249-1315
onRtcPeerConnectionIceCandidateEvent(s, iceGatheringState, fail, closeFail) ==
    LET r == LocalDescriptionReady(s, fail) IN
    IF ~Truthy(s.call.peerConnection) THEN Result(s, NoException)
    ELSE IF s.call.peerConnection.signalingState = "closed" THEN Result(s, NoException)
    ELSE IF iceGatheringState # "complete" THEN Result(s, NoException)
    ELSE IF window # "webkitRTCPeerConnection" THEN Result(s, NoException)
    ELSE IF r.thrown # NoException
    THEN onRtcPeerConnectionErrorEvent(r.s, r.thrown, closeFail)
    ELSE r

\* lines 1424-1481
onRtcPeerConnectionSetLocalDescriptionSuccessEvent(s, fail, closeFail) ==
    LET r == LocalDescriptionReady(s, fail) IN
    IF ~Truthy(s.call.peerConnection) THEN Result(s, NoException)
    ELSE IF window # "mozRTCPeerConnection" THEN Result(s, NoException)
    ELSE IF r.thrown # NoException
    THEN onRtcPeerConnectionErrorEvent(r.s, Undefined, closeFail)
    ELSE r

\* lines 1487-1509
onRtcPeerConnectionSetLocalDescriptionErrorEvent(s, error, closeFail) ==
    IF Truthy(s.call.peerConnection)
    THEN onRtcPeerConnectionErrorEvent(s, Undefined, closeFail)
    ELSE Result(s, NoException)

\* lines 1516-1554
onRtcPeerConnectionCreateAnswerSuccessEvent(s, fail, closeFail) ==
    LET s1 == [s EXCEPT !.call.peerConnectionState = "preparing-answer"]
        s2 == Invoke(s1, "peerConnection.setLocalDescription", Undefined) IN
    IF ~Truthy(s.call.peerConnection) THEN Result(s, NoException)
    ELSE IF s.call.peerConnectionState # "offer-received" THEN Result(s, NoException)
    ELSE IF fail = "throws" THEN onRtcPeerConnectionErrorEvent(s2, Undefined, closeFail)
    ELSE Result([s2 EXCEPT !.call.peerConnection.pending = @ \cup {"setLocalDescription"}],
                NoException)

\* lines 1561-1582: nothing in the try block throws
onRtcPeerConnectionCreateAnswerErrorEvent(s, error, closeFail) ==
    Result(s, NoException)

\* lines 1588-1662
onRtcPeerConnectionSetRemoteDescriptionSuccessEvent(s, fail, closeFail) ==
    LET s1 == Invoke(s, "peerConnection.createAnswer", Undefined) IN
    IF ~Truthy(s.call.peerConnection) THEN Result(s, NoException)
    ELSE IF s.call.peerConnectionState = "answer-received"
    THEN Result(OpenedEvent([s EXCEPT !.call.peerConnectionState = "established"]),
                NoException)
    ELSE IF s.call.peerConnectionState = "offer-received"
    THEN IF fail = "throws" THEN onRtcPeerConnectionErrorEvent(s1, Undefined, closeFail)
         ELSE Result([s1 EXCEPT !.call.peerConnection.pending = @ \cup {"createAnswer"}],
                     NoException)
    ELSE Result(s, NoException)

\* lines 1669-1690
onRtcPeerConnectionSetRemoteDescriptionErrorEvent(s, error, closeFail) ==
    IF Truthy(s.call.peerConnection)
    THEN onRtcPeerConnectionErrorEvent(s, error, closeFail)
    ELSE Result(s, NoException)

\* lines 1718-1732
onRtcPeerConnectionStateChangeEvent(s) ==
    IF Truthy(s.call.peerConnection)
    THEN IF s.call.peerConnection.signalingState = "closed"
         THEN Result([s EXCEPT !.call.peerConnection = Null], NoException)
         ELSE Result(s, NoException)
    ELSE Result(s, NoException)

\* lines 1759-1818: nothing catches what connector.invite or
\* connector.accept throws
onRtcPeerConnectionGatheringChangeEvent(s, iceGatheringState, fail) ==
    IF ~Truthy(s.call.peerConnection) THEN Result(s, NoException)
    ELSE IF s.call.peerConnection.signalingState = "closed" THEN Result(s, NoException)
    ELSE IF iceGatheringState # "complete" THEN Result(s, NoException)
    ELSE IF window # "webkitRTCPeerConnection" THEN Result(s, NoException)
    ELSE LocalDescriptionReady(s, fail)

(***************************************************************************)
(* The steps of the call: the application calls a method, the connector    *)
(* or the browser calls a handler, or a timer runs                         *)
(***************************************************************************)
\* the failures to choose from: all of them when the handler gets to the
\* calls that may fail, otherwise only "none", as the choice changes nothing
Reached(failures, reached) == IF reached THEN failures ELSE {"none"}

\* open() and accept() pass their tests on configuration and state
Proceeds(configuration) ==
    /\ typeof(configuration) = "object"
    /\ webRTCommClient.opened
    /\ configuration # Null
    /\ IF typeof(configuration) = "object" /\ configuration # Null
       THEN checkConfiguration(configuration) ELSE FALSE
    /\ ~isOpened(call)

\* a handler schedules at most two callbacks
CanSchedule == Len(timers) + 2 <= MaxTimers

\* handlers run one at a time, each to its end: the next one starts when
\* the last one has returned
Ready == last = NoHandler

\* handler op, called with args, ran from the present state to result r
Handler(op, args, r) ==
    /\ call' = r.s.call
    /\ timers' = r.s.timers
    /\ last' = [op |-> op, args |-> args, calls |-> r.s.calls, thrown |-> r.thrown]
    /\ UNCHANGED <<webRTCommClient, window, parserVars>>

\* the browser answers the pending operation op of the peer connection
Pending(op) ==
    IF Truthy(call.peerConnection) THEN op \in call.peerConnection.pending ELSE FALSE
Answered(op) == [Frame EXCEPT !.call.peerConnection.pending = @ \ {op}]

\* the client opens or closes; isOpened() of the client tells which
WebRTCommClient_open ==
    /\ Ready
    /\ ~webRTCommClient.opened
    /\ webRTCommClient' = [webRTCommClient EXCEPT !.opened = TRUE]
    /\ UNCHANGED <<call, window, timers, parserVars, last>>

WebRTCommClient_close ==
    /\ Ready
    /\ webRTCommClient.opened
    /\ webRTCommClient' = [webRTCommClient EXCEPT !.opened = FALSE]
    /\ UNCHANGED <<call, window, timers, parserVars, last>>

\* the client gives the call its connector
WebRTCommClient_connector ==
    /\ Ready
    /\ ~Truthy(call.connector)
    /\ call' = [call EXCEPT !.connector = PrivateCallConnector(FALSE)]
    /\ UNCHANGED <<webRTCommClient, window, timers, parserVars, last>>

WebRTCommCall_open ==
    /\ Ready
    /\ CanSchedule
    /\ \E calleePhoneNumber \in PhoneNumbers, configuration \in Configurations :
       \E fail \in Reached(OpenFailures, Proceeds(configuration)) :
       \E closeFail \in Reached(CloseFailures, fail # "none" \/ ~Truthy(call.connector)) :
            Handler("open", <<calleePhoneNumber, configuration>>,
                    open(Frame, calleePhoneNumber, configuration, fail, closeFail))

WebRTCommCall_close ==
    /\ Ready
    /\ CanSchedule
    /\ \E fail \in CloseFailures :
            Handler("close", <<>>, close(Frame, fail))

WebRTCommCall_accept ==
    /\ Ready
    /\ CanSchedule
    /\ \E configuration \in Configurations :
       \E fail \in Reached(AcceptFailures, Proceeds(configuration)) :
       \E closeFail \in Reached(CloseFailures, fail # "none") :
            Handler("accept", <<configuration>>, accept(Frame, configuration, fail, closeFail))

WebRTCommCall_sendMessage ==
    /\ Ready
    /\ CanSchedule
    /\ \E shortMessage \in ShortMessages, fail \in CallbackFailures :
            Handler("sendMessage", <<shortMessage>>, sendMessage(Frame, shortMessage, fail))

WebRTCommCall_muteLocalAudioMediaStream ==
    /\ Ready
    /\ CanSchedule
    /\ \E fail \in Reached(StreamFailures, Truthy(call.configuration)) :
            Handler("muteLocalAudioMediaStream", <<>>,
                    muteLocalAudioMediaStream(Frame, fail))

WebRTCommCall_unmuteLocalAudioMediaStream ==
    /\ Ready
    /\ CanSchedule
    /\ \E fail \in Reached(StreamFailures, Truthy(call.configuration)) :
            Handler("unmuteLocalAudioMediaStream", <<>>,
                    unmuteLocalAudioMediaStream(Frame, fail))

WebRTCommCall_hideLocalVideoMediaStream ==
    /\ Ready
    /\ CanSchedule
    /\ \E fail \in Reached(StreamFailures, Truthy(call.configuration)) :
            Handler("hideLocalVideoMediaStream", <<>>,
                    hideLocalVideoMediaStream(Frame, fail))

WebRTCommCall_showLocalVideoMediaStream ==
    /\ Ready
    /\ CanSchedule
    /\ \E fail \in Reached(StreamFailures, Truthy(call.configuration)) :
            Handler("showLocalVideoMediaStream", <<>>,
                    showLocalVideoMediaStream(Frame, fail))

WebRTCommCall_onPrivateCallConnectorRemoteSdpAnswerEvent ==
    /\ Ready
    /\ CanSchedule
    /\ Truthy(call.connector)
    /\ \E fail \in CallbackFailures :
        Handler("onPrivateCallConnectorRemoteSdpAnswerEvent", <<>>,
                onPrivateCallConnectorRemoteSdpAnswerEvent(Frame, fail))

WebRTCommCall_onPrivateCallConnectorCallClosedEvent ==
    /\ Ready
    /\ CanSchedule
    /\ Truthy(call.connector)
    /\ \E closeFail \in CloseFailures :
        Handler("onPrivateCallConnectorCallClosedEvent", <<>>,
                onPrivateCallConnectorCallClosedEvent(Frame, closeFail))

WebRTCommCall_onRtcPeerConnectionCreateOfferSuccessEvent ==
    /\ Ready
    /\ CanSchedule
    /\ Pending("createOffer")
    /\ \E fail \in CallbackFailures :
       \E sdpOffer \in IF fail = "none" /\ call.peerConnectionState = "new"
                       THEN SdpOffers ELSE {RTCSessionDescription(<<>>)} :
       \E closeFail \in Reached(CloseFailures, fail # "none" \/ ~Truthy(call.connector)) :
        Handler("onRtcPeerConnectionCreateOfferSuccessEvent", <<sdpOffer>>,
                onRtcPeerConnectionCreateOfferSuccessEvent(Answered("createOffer"),
                                                           sdpOffer, fail, closeFail))

WebRTCommCall_onRtcPeerConnectionCreateOfferErrorEvent ==
    /\ Ready
    /\ CanSchedule
    /\ Pending("createOffer")
    /\ \E closeFail \in CloseFailures :
        Handler("onRtcPeerConnectionCreateOfferErrorEvent", <<Exception>>,
                onRtcPeerConnectionCreateOfferErrorEvent(Answered("createOffer"),
                                                         Exception, closeFail))

WebRTCommCall_onRtcPeerConnectionSetLocalDescriptionSuccessEvent ==
    /\ Ready
    /\ CanSchedule
    /\ Pending("setLocalDescription")
    /\ \E fail \in CallbackFailures :
       \E closeFail \in Reached(CloseFailures, fail # "none" \/ ~Truthy(call.connector)) :
        Handler("onRtcPeerConnectionSetLocalDescriptionSuccessEvent", <<>>,
                onRtcPeerConnectionSetLocalDescriptionSuccessEvent(
                    Answered("setLocalDescription"), fail, closeFail))

WebRTCommCall_onRtcPeerConnectionSetLocalDescriptionErrorEvent ==
    /\ Ready
    /\ CanSchedule
    /\ Pending("setLocalDescription")
    /\ \E closeFail \in CloseFailures :
        Handler("onRtcPeerConnectionSetLocalDescriptionErrorEvent",
                <<Exception>>,
                onRtcPeerConnectionSetLocalDescriptionErrorEvent(
                    Answered("setLocalDescription"), Exception, closeFail))

WebRTCommCall_onRtcPeerConnectionCreateAnswerSuccessEvent ==
    /\ Ready
    /\ CanSchedule
    /\ Pending("createAnswer")
    /\ \E fail \in CallbackFailures :
       \E closeFail \in Reached(CloseFailures, fail # "none" \/ ~Truthy(call.connector)) :
        Handler("onRtcPeerConnectionCreateAnswerSuccessEvent", <<>>,
                onRtcPeerConnectionCreateAnswerSuccessEvent(Answered("createAnswer"),
                                                            fail, closeFail))

WebRTCommCall_onRtcPeerConnectionCreateAnswerErrorEvent ==
    /\ Ready
    /\ CanSchedule
    /\ Pending("createAnswer")
    /\ \E closeFail \in CloseFailures :
        Handler("onRtcPeerConnectionCreateAnswerErrorEvent", <<Exception>>,
                onRtcPeerConnectionCreateAnswerErrorEvent(Answered("createAnswer"),
                                                          Exception, closeFail))

WebRTCommCall_onRtcPeerConnectionSetRemoteDescriptionSuccessEvent ==
    /\ Ready
    /\ CanSchedule
    /\ Pending("setRemoteDescription")
    /\ \E fail \in CallbackFailures :
       \E closeFail \in Reached(CloseFailures, fail # "none" \/ ~Truthy(call.connector)) :
        Handler("onRtcPeerConnectionSetRemoteDescriptionSuccessEvent", <<>>,
                onRtcPeerConnectionSetRemoteDescriptionSuccessEvent(
                    Answered("setRemoteDescription"), fail, closeFail))

WebRTCommCall_onRtcPeerConnectionSetRemoteDescriptionErrorEvent ==
    /\ Ready
    /\ CanSchedule
    /\ Pending("setRemoteDescription")
    /\ \E closeFail \in CloseFailures :
        Handler("onRtcPeerConnectionSetRemoteDescriptionErrorEvent",
                <<Exception>>,
                onRtcPeerConnectionSetRemoteDescriptionErrorEvent(
                    Answered("setRemoteDescription"), Exception,
                    closeFail))

\* the browser has closed the peer connection (signalingState 'closed',
\* tested at lines 372 and 1726) and tells it by a state change event
WebRTCommCall_onRtcPeerConnectionStateChangeEvent ==
    /\ Ready
    /\ CanSchedule
    /\ Truthy(call.peerConnection)
    /\ \E signalingState \in {"stable", "closed"} :
        Handler("onRtcPeerConnectionStateChangeEvent", <<>>,
                onRtcPeerConnectionStateChangeEvent(
                    [Frame EXCEPT !.call.peerConnection.signalingState = signalingState,
                                  !.call.peerConnection.pending =
                                      IF signalingState = "closed" THEN {} ELSE @]))

\* the browser has an ICE candidate for the peer connection, or the state
\* of its gathering has changed
WebRTCommCall_onRtcPeerConnectionIceCandidateEvent ==
    /\ Ready
    /\ CanSchedule
    /\ Truthy(call.peerConnection)
    /\ \E iceGatheringState \in IceGatheringStates, fail \in CallbackFailures :
       \E closeFail \in Reached(CloseFailures, fail # "none" \/ ~Truthy(call.connector)) :
        Handler("onRtcPeerConnectionIceCandidateEvent", <<String(iceGatheringState)>>,
                onRtcPeerConnectionIceCandidateEvent(Frame, iceGatheringState,
                                                     fail, closeFail))

WebRTCommCall_onRtcPeerConnectionGatheringChangeEvent ==
    /\ Ready
    /\ CanSchedule
    /\ Truthy(call.peerConnection)
    /\ \E iceGatheringState \in IceGatheringStates, fail \in CallbackFailures :
        Handler("onRtcPeerConnectionGatheringChangeEvent", <<String(iceGatheringState)>>,
                onRtcPeerConnectionGatheringChangeEvent(Frame, iceGatheringState, fail))

\* the message channel has opened (readyState 'open'); lines 1897-1916 only
\* log it
WebRTCommCall_onRtcPeerConnectionMessageChannelOnOpenEvent ==
    /\ Ready
    /\ CanSchedule
    /\ Truthy(call.messageChannel)
    /\ IF Truthy(call.messageChannel)
       THEN call.messageChannel.readyState = "connecting" ELSE FALSE
    /\ Handler("onRtcPeerConnectionMessageChannelOnOpenEvent", <<>>,
               Result([Frame EXCEPT !.call.messageChannel.readyState = "open"],
                      NoException))

\* the callback given first to setTimeout runs; the one of open() reads
\* that.webRTCommClient inside a try block, lines 316-323
Timeout ==
    /\ Ready
    /\ timers # <<>>
    /\ timers' = Tail(timers)
    /\ last' = [op |-> "setTimeout", args |-> <<>>,
                calls |-> IF Truthy(Head(timers).that)
                          THEN <<[fn |-> Head(timers).handler, arg |-> Head(timers).error]>>
                          ELSE <<>>,
                thrown |-> NoException]
    /\ UNCHANGED <<call, webRTCommClient, window, parserVars>>

\* the handler that ran last returns to the event loop, or throws to it
HandlerReturns ==
    /\ ~Ready
    /\ last' = NoHandler
    /\ UNCHANGED <<call, webRTCommClient, window, timers, parserVars>>

CallInit ==
    /\ message = <<>>
    /\ lexers = <<>>
    /\ parsers = <<>>
    /\ call = WebRTCommCall
    /\ webRTCommClient \in {[opened |-> o] : o \in BOOLEAN}
    /\ window \in {"webkitRTCPeerConnection", "mozRTCPeerConnection"}
    /\ timers = <<>>
    /\ last = NoHandler

CallNext ==
    \/ WebRTCommClient_open
    \/ WebRTCommClient_close
    \/ WebRTCommClient_connector
    \/ WebRTCommCall_open
    \/ WebRTCommCall_close
    \/ WebRTCommCall_accept
    \/ WebRTCommCall_sendMessage
    \/ WebRTCommCall_onPrivateCallConnectorRemoteSdpAnswerEvent
    \/ WebRTCommCall_onPrivateCallConnectorCallClosedEvent
    \/ WebRTCommCall_onRtcPeerConnectionCreateOfferSuccessEvent
    \/ WebRTCommCall_onRtcPeerConnectionCreateOfferErrorEvent
    \/ WebRTCommCall_onRtcPeerConnectionSetLocalDescriptionSuccessEvent
    \/ WebRTCommCall_onRtcPeerConnectionSetLocalDescriptionErrorEvent
    \/ WebRTCommCall_onRtcPeerConnectionCreateAnswerSuccessEvent
    \/ WebRTCommCall_onRtcPeerConnectionCreateAnswerErrorEvent
    \/ WebRTCommCall_onRtcPeerConnectionSetRemoteDescriptionSuccessEvent
    \/ WebRTCommCall_onRtcPeerConnectionSetRemoteDescriptionErrorEvent
    \/ WebRTCommCall_onRtcPeerConnectionStateChangeEvent
    \/ WebRTCommCall_onRtcPeerConnectionIceCandidateEvent
    \/ WebRTCommCall_onRtcPeerConnectionGatheringChangeEvent
    \/ WebRTCommCall_onRtcPeerConnectionMessageChannelOnOpenEvent
    \/ Timeout
    \/ HandlerReturns

CallSpec == CallInit /\ [][CallNext]_vars

\* The methods on the local media stream read the configuration of the call
\* and change nothing of the call: they are taken with the methods that set
\* the configuration, apart from the signalling.
StreamNext ==
    \/ WebRTCommClient_open
    \/ WebRTCommClient_close
    \/ WebRTCommClient_connector
    \/ WebRTCommCall_open
    \/ WebRTCommCall_close
    \/ WebRTCommCall_accept
    \/ WebRTCommCall_muteLocalAudioMediaStream
    \/ WebRTCommCall_unmuteLocalAudioMediaStream
    \/ WebRTCommCall_hideLocalVideoMediaStream
    \/ WebRTCommCall_showLocalVideoMediaStream
    \/ Timeout
    \/ HandlerReturns

StreamSpec == CallInit /\ [][StreamNext]_vars

(***************************************************************************)
(* Reference reading of a generated header line, lexeme by lexeme          *)
(***************************************************************************)
IsSpace(c) == c = Sp
StripWs(h) == SelectSeq(h, LAMBDA c : ~IsSpace(c))

\* the header line at whose first character the parser p started (<<>> when
\* it started elsewhere)
HeaderOf(p) == IF p.hdr = 0 THEN <<>> ELSE message[p.hdr]

\* offset, within header line h, of its k-th lexeme
LexemeOffset(h, k) == Len(Concat(SubSeq(h, 1, k - 1)))
FirstIndex(h, c) == CHOOSE k \in 1..Len(h) : h[k] = c /\ \A j \in 1..(k - 1) : h[j] # c

\* name, ':' with optional spaces around it
HasHead(h, name) ==
    /\ Len(StripWs(h)) >= 2
    /\ h[1] = StripWs(h)[1]
    /\ toUpperCase(StripWs(h)[1]) = toUpperCase(name)
    /\ StripWs(h)[2] = Colon

\* the lexemes between the ':' and the end of the line, spaces dropped
ValueOf(h) ==
    LET s == StripWs(h) IN
    IF s[Len(s)] = Nl THEN SubSeq(s, 3, Len(s) - 1) ELSE SubSeq(s, 3, Len(s))

\* tag *( ',' tag )
IsTagList(v) ==
    /\ Len(v) % 2 = 1
    /\ \A k \in 1..Len(v) : IF k % 2 = 1 THEN v[k] \in Tags ELSE v[k] = Comma

\* header-name ':' [ option-tag *( ',' option-tag ) ] '\n'
WellFormedSupported(h) ==
    /\ HasHead(h, SupportedName)
    /\ h[Len(h)] = Nl
    /\ ValueOf(h) = <<>> \/ IsTagList(ValueOf(h))

TagsOf(h) == SelectSeq(ValueOf(h), LAMBDA c : c \in Tags)

OptionTags(v) == [k \in 1..Len(v.hlist) |-> v.hlist[k].optionTag]

\* offset of the first '\n' of buffer at or after offset p, -1 when none
RECURSIVE FirstNewline(_, _)
FirstNewline(buffer, p) ==
    IF p >= Len(buffer) THEN -1
    ELSE IF buffer[p + 1] = NL THEN p
    ELSE FirstNewline(buffer, p + 1)

Running == parsers # <<>>
Returned(classname) == Running /\ this.classname = classname /\ this.pc = "returned"
Thrown(classname)   == Running /\ this.classname = classname /\ this.pc = "thrown"
Done(classname)     == Returned(classname) \/ Thrown(classname)

(***************************************************************************)
(* Properties                                                              *)
(***************************************************************************)
\* C1: whenever parse() of one of the three parsers returns, the cursor of
\* its lexer is exactly one position past the terminating '\n' of the
\* header it parsed.
C1_CursorPastNewline ==
    (Running /\ this.pc = "returned") =>
        lexer.ptr = FirstNewline(lexer.buffer, this.start) + 1

\* C2: SupportedParser.parse() returns only on a header of the form
\* header-name ':' [ option-tag *( ',' option-tag ) ] '\n'; two tags with
\* only whitespace between them are rejected.
C2_SupportedOnlyGrammar ==
    Returned("SupportedParser") => WellFormedSupported(HeaderOf(this))

\* C3: on a well-formed Supported header with n >= 1 tags parse() returns
\* a list of exactly n elements carrying the tags in input order.
C3_SupportedTagsInOrder ==
    (/\ Done("SupportedParser")
     /\ WellFormedSupported(HeaderOf(this))
     /\ TagsOf(HeaderOf(this)) # <<>>)
    => /\ this.pc = "returned"
       /\ this.ret.class = "SupportedList"
       /\ Len(this.ret.hlist) = Len(TagsOf(HeaderOf(this)))
       /\ OptionTags(this.ret) = TagsOf(HeaderOf(this))

C3_Witness ==
    /\ Returned("SupportedParser")
    /\ WellFormedSupported(HeaderOf(this))
    /\ OptionTags(this.ret) = <<Tag1, Tag2>>

\* C4: on a Supported header without tags parse() returns a list of zero
\* elements and never tries to read an identifier.
C4_SupportedEmptyList ==
    (/\ Done("SupportedParser")
     /\ WellFormedSupported(HeaderOf(this))
     /\ TagsOf(HeaderOf(this)) = <<>>)
    => /\ this.pc = "returned"
       /\ this.ret = SupportedList(<<>>)
       /\ this.idMatches = 0

C4_Witness ==
    /\ Returned("SupportedParser")
    /\ HeaderOf(this) = <<SupportedName, Colon, Sp, Sp, Nl>>
    /\ this.ret = SupportedList(<<>>)

\* C5: on a Supported value that starts with ',' parse() fails with an
\* unexpected-token error at the offset of that comma, with no element in
\* the list and no list returned.
LeadingComma(h) ==
    /\ HasHead(h, SupportedName)
    /\ Len(StripWs(h)) >= 3
    /\ StripWs(h)[3] = Comma

C5_LeadingCommaFails ==
    (Done("SupportedParser") /\ LeadingComma(HeaderOf(this)))
    => /\ this.pc = "thrown"
       /\ this.err.type = "UnexpectedToken"
       /\ this.err.offset =
              this.start + LexemeOffset(HeaderOf(this), FirstIndex(HeaderOf(this), Comma))
       /\ this.supportedList = SupportedList(<<>>)
       /\ this.ret = Undefined

C5_Witness ==
    /\ Thrown("SupportedParser")
    /\ HeaderOf(this) = <<SupportedName, Colon, Sp, Comma, Tag2, Nl>>
    /\ this.err = [type |-> "UnexpectedToken", offset |-> 11]

(***************************************************************************)
(* Properties of the header name, of failures and of shared lexers         *)
(***************************************************************************)
Keyword(classname) ==
    IF classname = "SupportedParser" THEN SupportedName
    ELSE IF classname = "AuthorizationParser" THEN AuthorizationName
    ELSE ToName

\* the header-name token in front of the parser p
NameToken(p) == IF HeaderOf(p) = <<>> THEN <<>> ELSE HeaderOf(p)[1]
NameMatches(p) == toUpperCase(NameToken(p)) = toUpperCase(Keyword(p.classname))

\* offset, within h, of the first lexeme after the name and the spaces
\* that follow it
RECURSIVE SkipSpaces(_, _)
SkipSpaces(h, k) == IF k <= Len(h) /\ IsSpace(h[k]) THEN SkipSpaces(h, k + 1) ELSE k
AfterName(h) == IF h = <<>> THEN 0 ELSE LexemeOffset(h, SkipSpaces(h, 2))

\* parse() went past headerName into the value grammar
Proceeded(p) ==
    /\ p.pc # "headerName"
    /\ ~(p.pc = "thrown" /\ p.err.type = "HeaderNameMismatch")

\* parse() failed in headerName: nothing of the value read, nothing returned
FailedInHeaderName(p, L) ==
    /\ p.pc = "thrown"
    /\ p.err.type = "HeaderNameMismatch"
    /\ p.ret = Undefined
    /\ L.ptr <= p.start + AfterName(HeaderOf(p))
    /\ p.idMatches = 0
    /\ p.supportedList \in {Undefined, SupportedList(<<>>)}
    /\ p.auth = Undefined
    /\ p.to = Undefined

\* C6 as stated: parse() proceeds to the value grammar if and only if the
\* header-name token case-insensitively equals the expected keyword, and
\* otherwise fails with a header-name mismatch before reading any value.
C6_ProceedsIffNameMatches ==
    (Running /\ this.pc # "headerName") =>
        IF NameMatches(this) THEN Proceeded(this) ELSE FailedInHeaderName(this, lexer)

\* C6 amended: parse() proceeds to the value grammar if and only if the
\* header-name token case-insensitively equals the expected keyword and
\* is followed, after optional spaces, by ':'; otherwise it fails with a
\* header-name mismatch before reading any value and returns nothing.
C6_ProceedsIffHeadMatches ==
    (Running /\ this.pc # "headerName") =>
        IF HasHead(HeaderOf(this), Keyword(this.classname))
        THEN Proceeded(this)
        ELSE FailedInHeaderName(this, lexer)

C6_Witness ==
    /\ Thrown("SupportedParser")
    /\ HeaderOf(this) = <<SupportedName, Sp, Tag1, Nl>>
    /\ this.err = [type |-> "HeaderNameMismatch", offset |-> 10]

\* C7: when parse() meets an error, at whatever point of the header, it
\* ends by throwing that error and returns no value, not even the
\* elements read before the error.
C7_NoPartialValue ==
    Running =>
        /\ this.err # NoError => (this.pc = "thrown" /\ this.ret = Undefined)
        /\ this.pc = "thrown" => (this.err # NoError /\ this.ret = Undefined)

C7_Witness ==
    /\ Thrown("SupportedParser")
    /\ this.supportedList.hlist # <<>>
    /\ this.ret = Undefined

\* the parser class a header line is meant for, and the value its parser
\* returns for it from a string of its own
ClassFor(h) ==
    IF h[1] = ToName THEN "ToParser"
    ELSE IF h[1] = AuthorizationName THEN "AuthorizationParser"
    ELSE "SupportedParser"
StandaloneValue(h) ==
    IF h = <<ToName, Colon, Sp, Lt, Uri, Gt, Nl>> THEN To(Address(<<>>, Uri), <<>>)
    ELSE IF h = <<SupportedName, Colon, Sp, Tag2, Nl>>
    THEN SupportedList(<<Supported(TRUE, Tag2)>>)
    ELSE Undefined

\* C8: two parsers run one after the other, in header order, over one
\* shared lexer holding two well-formed headers: the second starts at the
\* first character of its header, returns, and returns the value it
\* returns for that header alone.
C8_SharedLexerInOrder ==
    (/\ Len(message) = 2
     /\ Len(parsers) = 2
     /\ parsers[1].lexer = 1 /\ parsers[2].lexer = 1
     /\ parsers[1].classname = ClassFor(message[1])
     /\ parsers[2].classname = ClassFor(message[2])
     /\ parsers[1].pc = "returned"
     /\ Finished(parsers[2]))
    => /\ parsers[2].start = HeaderStart(message, 2)
       /\ parsers[2].pc = "returned"
       /\ parsers[2].ret = StandaloneValue(message[2])

\* C9: a parser built from a string and a parser of the same class built
\* from a lexer at the start of the same text end alike: both return or
\* both throw, with equal values and errors, their lexers at one offset.
C9_StringAndLexerAlike ==
    (/\ Len(parsers) = 2
     /\ Finished(parsers[2])
     /\ parsers[1].classname = parsers[2].classname
     /\ parsers[1].lexer # parsers[2].lexer
     /\ 1 \in {parsers[1].lexer, parsers[2].lexer}
     /\ parsers[1].start = parsers[2].start
     /\ lexers[parsers[1].lexer].buffer = lexers[parsers[2].lexer].buffer)
    => /\ parsers[1].pc = parsers[2].pc
       /\ parsers[1].ret = parsers[2].ret
       /\ parsers[1].err = parsers[2].err
       /\ lexers[parsers[1].lexer].ptr = lexers[parsers[2].lexer].ptr

C9_Witness ==
    /\ Len(parsers) = 2
    /\ parsers[1].lexer = 1 /\ parsers[2].lexer = 2
    /\ parsers[1].classname = "ToParser" /\ parsers[2].classname = "ToParser"
    /\ parsers[1].pc = "returned" /\ parsers[2].pc = "returned"
    /\ parsers[1].ret = parsers[2].ret
    /\ lexers[1].buffer = lexers[2].buffer
    /\ lexers[1].ptr = Len(lexers[1].buffer)

(***************************************************************************)
(* Properties of AuthorizationParser                                       *)
(***************************************************************************)
IsAuthParam(c) == c \in AuthParams /\ \E k \in 1..Len(c) : c[k] = "="
ParamName(c)   == SubSeq(c, 1, FirstIndex(c, "=") - 1)
ParamRaw(c)    == SubSeq(c, FirstIndex(c, "=") + 1, Len(c))
ParamValue(c)  == IF ParamRaw(c)[1] = "\""
                  THEN SubSeq(ParamRaw(c), 2, Len(ParamRaw(c)) - 1)
                  ELSE ParamRaw(c)

\* scheme auth-param *( ',' auth-param )
IsChallenge(v) ==
    /\ Len(v) >= 2 /\ Len(v) % 2 = 0
    /\ v[1] = Digest
    /\ \A k \in 2..Len(v) : IF k % 2 = 0 THEN IsAuthParam(v[k]) ELSE v[k] = Comma

WellFormedAuthorization(h) ==
    /\ HasHead(h, AuthorizationName)
    /\ h[Len(h)] = Nl
    /\ IsChallenge(ValueOf(h))

AuthParamsOf(h) == SelectSeq(ValueOf(h), IsAuthParam)

\* C10: on 'Authorization: scheme n1=v1, ..., nk=vk\n' parse() returns
\* the scheme and exactly the pairs (n1,v1)..(nk,vk) in input order, every
\* occurrence of a repeated name kept.
C10_AuthorizationParams ==
    (Done("AuthorizationParser") /\ WellFormedAuthorization(HeaderOf(this)))
    => /\ this.pc = "returned"
       /\ this.ret.class = "Authorization"
       /\ this.ret.scheme = Digest
       /\ Len(this.ret.parameters) = Len(AuthParamsOf(HeaderOf(this)))
       /\ \A k \in 1..Len(this.ret.parameters) :
             /\ this.ret.parameters[k].name = ParamName(AuthParamsOf(HeaderOf(this))[k])
             /\ this.ret.parameters[k].value = ParamValue(AuthParamsOf(HeaderOf(this))[k])

C10_Witness ==
    /\ Returned("AuthorizationParser")
    /\ Len(this.ret.parameters) = 2
    /\ this.ret.parameters[1] = NameValue(<<"n">>, <<"1">>, TRUE)
    /\ this.ret.parameters[2] = NameValue(<<"n">>, <<"2">>, TRUE)

(***************************************************************************)
(* Properties of ToParser                                                  *)
(***************************************************************************)
\* the lexemes of header line h after the ':' and the spaces behind it
AfterColon(h) == SubSeq(h, SkipSpaces(h, FirstIndex(h, Colon) + 1), Len(h))

\* number of lexemes of the address in front of r (0 when there is none)
AddressLength(r) ==
    IF Len(r) >= 5 /\ SubSeq(r, 1, 5) = <<DisplayName, Sp, Lt, Uri, Gt>> THEN 5
    ELSE IF Len(r) >= 3 /\ SubSeq(r, 1, 3) = <<Lt, Uri, Gt>> THEN 3
    ELSE IF Len(r) >= 1 /\ r[1] = Uri THEN 1
    ELSE 0

\* *( ';' generic-param ) '\n'
IsParamsThenNewline(t) ==
    /\ Len(t) % 2 = 1
    /\ t[Len(t)] = Nl
    /\ \A k \in 1..(Len(t) - 1) :
          IF k % 2 = 1 THEN t[k] = Semi ELSE t[k] \in GenericParams

\* 'To' ':' address *( ';' generic-param ) '\n'
WellFormedTo(h) ==
    /\ HasHead(h, ToName)
    /\ AddressLength(AfterColon(h)) > 0
    /\ IsParamsThenNewline(SubSeq(AfterColon(h), AddressLength(AfterColon(h)) + 1,
                                  Len(AfterColon(h))))

GenericParamsOf(h) == SelectSeq(h, LAMBDA c : c \in GenericParams)
HasEquals(c) == \E k \in 1..Len(c) : c[k] = "="
GenericParamValue(c) ==
    IF HasEquals(c)
    THEN NameValue(SubSeq(c, 1, FirstIndex(c, "=") - 1),
                   SubSeq(c, FirstIndex(c, "=") + 1, Len(c)), TRUE)
    ELSE NameValue(c, <<>>, FALSE)
DisplayNameOf(h) ==
    IF AfterColon(h)[1] = DisplayName
    THEN SubSeq(DisplayName, 2, Len(DisplayName) - 1)
    ELSE <<>>

\* C11: on 'To:' address *( ';' generic-param ) '\n' parse() returns the
\* address with its URI and the parameters in input order (none when
\* there are none); it does not return when anything but '\n' follows
\* the last parameter.
C11_ToAddressAndParams ==
    Done("ToParser") =>
        IF WellFormedTo(HeaderOf(this))
        THEN /\ this.pc = "returned"
             /\ this.ret.class = "To"
             /\ this.ret.address = Address(DisplayNameOf(HeaderOf(this)), Uri)
             /\ this.ret.parameters =
                    [k \in 1..Len(GenericParamsOf(HeaderOf(this))) |->
                        GenericParamValue(GenericParamsOf(HeaderOf(this))[k])]
        ELSE this.pc = "thrown" /\ this.ret = Undefined

C11_Witness ==
    /\ Returned("ToParser")
    /\ this.ret.address = Address(<<>>, Uri)
    /\ this.ret.parameters = << NameValue(<<"t","a","g">>, <<"1">>, TRUE),
                                NameValue(<<"l","r">>, <<>>, FALSE) >>

(***************************************************************************)
(* Termination                                                             *)
(***************************************************************************)
\* a step of the parse() call in progress
ParseStepTaken ==
    /\ Running
    /\ Len(parsers') = Len(parsers)
    /\ parsers' # parsers

\* what is left to do: nothing once parse() has returned or thrown; else
\* the characters not yet read, and one more at a loop head that can be
\* left without reading
Remaining(p, L) ==
    IF Finished(p) THEN 0
    ELSE 2 * (Len(L.buffer) - L.ptr) + (IF p.pc \in {"comma", "semi"} THEN 2 ELSE 1)

\* a step of the running SupportedParser from one of its two loop heads
LoopStep ==
    /\ ParseStepTaken
    /\ this.classname = "SupportedParser"
    /\ this.pc \in {"while", "comma"}

\* the step read at least one character, or ended parse(), or only left
\* the inner loop for the test of the outer one
LoopProgress ==
    \/ lexers'[this.lexer].ptr > lexer.ptr
    \/ parsers'[Len(parsers)].pc \in {"thrown", "returned"}
    \/ /\ this.pc = "comma"
       /\ parsers'[Len(parsers)].pc = "while"

\* C12: parse() of every parser ends, by a return or a failure, on every
\* input, also on one without '\n': every step of a parse() call brings
\* it nearer to its end, and every iteration of the two loops of
\* SupportedParser.parse reads at least one character or fails.
C12_ParseTerminates ==
    [][ParseStepTaken =>
          /\ Remaining(parsers'[Len(parsers)], lexers'[this.lexer]) < Remaining(this, lexer)
          /\ LoopStep => LoopProgress]_vars

C12_Witness ==
    /\ Thrown("SupportedParser")
    /\ HeaderOf(this) = <<SupportedName, Colon, Sp, Tag1, Comma, Tag2>>
    /\ this.err.offset = Len(lexer.buffer)
    /\ Len(this.supportedList.hlist) = 2

(***************************************************************************)
(* Parsers that own their lexer                                            *)
(***************************************************************************)
\* parser i was made from a string
OwnsLexer(i) == parsers[i].hdr # 0 /\ parsers[i].start = 0 /\ parsers[i].lexer # 1

\* parsers 1 and 2 are of one class, were made from equal strings, and
\* both have finished parse()
SameStringTwice ==
    /\ Len(parsers) = 2
    /\ OwnsLexer(1) /\ OwnsLexer(2)
    /\ parsers[1].classname = parsers[2].classname
    /\ HeaderText(message[parsers[1].hdr]) = HeaderText(message[parsers[2].hdr])
    /\ Finished(parsers[1]) /\ Finished(parsers[2])

\* C13: two parsers of one class, each made from the same header string
\* and so each owning its lexer, end alike: both return equal values or
\* both fail with the same error, and their lexers end in equal states.
C13_OwnedLexersIndependent ==
    SameStringTwice =>
        /\ parsers[1].pc = parsers[2].pc
        /\ parsers[1].ret = parsers[2].ret
        /\ parsers[1].err = parsers[2].err
        /\ lexers[parsers[1].lexer] = lexers[parsers[2].lexer]

C13_Witness ==
    /\ SameStringTwice
    /\ parsers[1].lexer # parsers[2].lexer
    /\ parsers[2].pc = "returned"
    /\ parsers[2].classname = "SupportedParser"
    /\ Len(parsers[2].ret.hlist) = 2

(***************************************************************************)
(* Parsers that borrow the lexer of their caller                           *)
(***************************************************************************)
\* a parser is constructed over the lexer of the caller
BorrowStep ==
    /\ Len(parsers') = Len(parsers) + 1
    /\ parsers'[Len(parsers')].lexer = 1

\* C14: constructing a parser of any of the three classes over a borrowed
\* lexer selects the context 'command_keywordLexer' in it and leaves its
\* text, its cursor and the last token read from it as they were, as well
\* as the values the earlier parsers made of the tokens they read.
C14_BorrowKeepsCursor ==
    [][BorrowStep =>
          /\ lexers'[1].currentLexerName = "command_keywordLexer"
          /\ lexers'[1].ptr = lexers[1].ptr
          /\ lexers'[1].buffer = lexers[1].buffer
          /\ lexers'[1].currentMatch = lexers[1].currentMatch
          /\ SubSeq(parsers', 1, Len(parsers)) = parsers
          /\ parsers'[Len(parsers')].start = lexers[1].ptr]_vars

C14_Witness ==
    /\ Len(parsers) = 2
    /\ parsers[1].lexer = 1 /\ parsers[2].lexer = 1
    /\ parsers[1].pc = "returned"
    /\ parsers[2].pc = "headerName"
    /\ lexers[1].ptr = parsers[2].start
    /\ lexers[1].ptr > 0
    /\ lexers[1].currentMatch # NoToken
    /\ lexers[1].currentLexerName = "command_keywordLexer"

\* the value of header line h is a list of tags followed by one more ','
TrailingComma(h) ==
    /\ HasHead(h, SupportedName)
    /\ h[Len(h)] = Nl
    /\ Len(ValueOf(h)) >= 2
    /\ ValueOf(h)[Len(ValueOf(h))] = Comma
    /\ IsTagList(SubSeq(ValueOf(h), 1, Len(ValueOf(h)) - 1))

\* C27: on a Supported value that ends with ',' (a comma followed, after
\* optional spaces, by the newline and not by a tag) parse() fails with an
\* unexpected-token error at the offset of the newline and returns no list.
C27_TrailingCommaFails ==
    (Done("SupportedParser") /\ TrailingComma(HeaderOf(this)))
    => /\ this.pc = "thrown"
       /\ this.err.type = "UnexpectedToken"
       /\ this.err.offset = this.start + Len(HeaderText(HeaderOf(this))) - 1
       /\ this.ret = Undefined

C27_Witness ==
    /\ Thrown("SupportedParser")
    /\ HeaderOf(this) = <<SupportedName, Colon, Sp, Tag1, Comma, Sp, Nl>>
    /\ this.err = [type |-> "UnexpectedToken", offset |-> 19]
    /\ this.supportedList = SupportedList(<<Supported(TRUE, Tag1)>>)
    /\ this.ret = Undefined

(***************************************************************************)
(* Properties of WebRTCommCall                                             *)
(***************************************************************************)
\* a callback with this handler, this call and this error waits in the timers
Scheduled(queue, handler, error) ==
    \E k \in 1..Len(queue) :
        queue[k] = [handler |-> handler, that |-> This, error |-> error]

\* the connector or the browser failed while the last handler ran close()
CloseFailed(trace) == "catch" \in Fns(trace)

Live(peerConnection) ==
    IF Truthy(peerConnection) THEN peerConnection.signalingState # "closed" ELSE FALSE

\* C15: when open() has passed its tests and then fails with an exception
\* (of connector.open, of the making of the peer connection, of addStream
\* or of createOffer), it throws that exception and has scheduled the
\* listener's onWebRTCommCallOpenErrorEvent with this call and that
\* exception.
C15_OpenErrorNotified ==
    (/\ last.op = "open"
     /\ last.thrown.class = "Error"
     /\ last.args[2] # Null)
    => Scheduled(timers, "onWebRTCommCallOpenErrorEvent", last.thrown)

\* C16: when the first close() of a call has returned normally, the
\* listener's onWebRTCommCallClosedEvent is scheduled for the call, with or
\* without a peer connection to close.
C16_ClosedEventAfterClose ==
    (/\ call.closes = 1
     /\ \E k \in 1..Len(last.calls) :
            last.calls[k] = [fn |-> "this.close", arg |-> NoException]
     /\ ~CloseFailed(last.calls))
    => Scheduled(timers, "onWebRTCommCallClosedEvent", Undefined)

\* open() is called with a configuration that is not an object or fails
\* checkConfiguration, or while the client is not opened or the call is
\* opened
OpenRefused(configuration) ==
    \/ typeof(configuration) # "object"
    \/ ~webRTCommClient.opened
    \/ IF configuration.class = "Object" THEN ~checkConfiguration(configuration) ELSE FALSE
    \/ isOpened(call)

\* C17: open() called with a configuration that is not an object or that
\* checkConfiguration refuses, or while the client is not opened or the
\* call is opened, throws, leaves calleePhoneNumber, configuration,
\* peerConnection and peerConnectionState as they were and does not call
\* connector.open.
C17_OpenRefusedChangesNothing ==
    [][(last'.op = "open" /\ OpenRefused(last'.args[2]))
       => /\ last'.thrown # NoException
          /\ call'.calleePhoneNumber = call.calleePhoneNumber
          /\ call'.configuration = call.configuration
          /\ call'.peerConnection = call.peerConnection
          /\ call'.peerConnectionState = call.peerConnectionState
          /\ "connector.open" \notin Fns(last'.calls)]_vars

C17_Witness ==
    /\ last.op = "open"
    /\ last.thrown = StringException("WebRTCommCall:open(): bad configuration")
    /\ webRTCommClient.opened
    /\ call.calleePhoneNumber = Undefined
    /\ call.configuration = Undefined
    /\ last.args[1] \in PhoneNumbers

ErrorCallbacks ==
    {"onRtcPeerConnectionCreateOfferErrorEvent",
     "onRtcPeerConnectionCreateAnswerErrorEvent",
     "onRtcPeerConnectionSetLocalDescriptionErrorEvent",
     "onRtcPeerConnectionSetRemoteDescriptionErrorEvent"}

\* C18: when the error callback of createOffer, createAnswer,
\* setLocalDescription or setRemoteDescription runs while the call has a
\* peer connection and the client is opened, the listener's
\* onWebRTCommCallOpenErrorEvent is scheduled and the call is closed: its
\* peer connection is closed and cleared.
C18_ErrorCallbackClosesCall ==
    [][(/\ last'.op \in ErrorCallbacks
        /\ Live(call.peerConnection)
        /\ webRTCommClient.opened
        /\ ~CloseFailed(last'.calls))
       => /\ \E error \in {Undefined, Exception} :
                Scheduled(timers', "onWebRTCommCallOpenErrorEvent", error)
          /\ "peerConnection.close" \in Fns(last'.calls)
          /\ ~Truthy(call'.peerConnection)]_vars

\* C19: when onPrivateCallConnectorCallClosedEvent has returned, the call
\* has no connector, isOpened() is false and the call holds no live peer
\* connection, whether the client is opened or not.
C19_ConnectorClosedClosesCall ==
    (/\ last.op = "onPrivateCallConnectorCallClosedEvent"
     /\ ~CloseFailed(last.calls))
    => /\ call.connector = Undefined
       /\ ~isOpened(call)
       /\ ~Live(call.peerConnection)

\* the state in which sendMessage may send
MaySend ==
    /\ webRTCommClient.opened
    /\ isOpened(call)
    /\ IF Truthy(call.messageChannel)
       THEN call.messageChannel.readyState = "open" ELSE FALSE

\* C20: sendMessage calls messageChannel.send, with its message, only when
\* the client is opened, the call is opened and the message channel exists
\* with readyState 'open'; in any other state it throws and calls nothing.
C20_SendOnlyWhenOpen ==
    [][last'.op = "sendMessage"
       => IF MaySend
          THEN last'.calls = <<[fn |-> "messageChannel.send", arg |-> last'.args[1]]>>
          ELSE /\ last'.calls = <<>>
               /\ last'.thrown # NoException
               /\ call' = call]_vars

C20_Witness ==
    /\ last.op = "sendMessage"
    /\ last.thrown = NoException
    /\ last.calls = <<[fn |-> "messageChannel.send", arg |-> String("hello")]>>
    /\ call.messageChannel = RTCDataChannel("open")

\* C21: close() called while the client is not opened throws 'bad state,
\* unauthorized action' and does nothing else: it calls neither
\* connector.close nor peerConnection.close, leaves the call and its peer
\* connection as they were and schedules nothing.
C21_CloseRefusedDoesNothing ==
    [][(last'.op = "close" /\ ~webRTCommClient.opened)
       => /\ last'.thrown =
                StringException("WebRTCommCall:close(): bad state, unauthorized action")
          /\ Fns(last'.calls) = {"this.close"}
          /\ call'.peerConnection = call.peerConnection
          /\ call' = call
          /\ timers' = timers]_vars

C21_Witness ==
    /\ last.op = "close"
    /\ last.thrown = StringException("WebRTCommCall:close(): bad state, unauthorized action")
    /\ ~webRTCommClient.opened
    /\ Live(call.peerConnection)
    /\ isOpened(call)

\* the session descriptions that the last handler gave to setLocalDescription
LocalDescriptions ==
    {last.calls[k].arg : k \in {j \in 1..Len(last.calls) :
                                 last.calls[j].fn = "peerConnection.setLocalDescription"}}

\* C22: when videoMediaFlag (audioMediaFlag) of the configuration is false,
\* the offer that onRtcPeerConnectionCreateOfferSuccessEvent gives to
\* setLocalDescription has no media description of type 'video' ('audio'),
\* however many of them the offer of the browser had.
C22_NoMediaOfDisabledType ==
    last.op = "onRtcPeerConnectionCreateOfferSuccessEvent"
    => \A sdpOffer \in LocalDescriptions :
        /\ call.configuration.videoMediaFlag = "false"
            => "video" \notin Range(sdpOffer.sdp)
        /\ call.configuration.audioMediaFlag = "false"
            => "audio" \notin Range(sdpOffer.sdp)

\* the four methods that work on the tracks of the local media stream
LocalMediaStreamMethods ==
    {"muteLocalAudioMediaStream", "unmuteLocalAudioMediaStream",
     "hideLocalVideoMediaStream", "showLocalVideoMediaStream"}

\* C23: muteLocalAudioMediaStream, unmuteLocalAudioMediaStream,
\* hideLocalVideoMediaStream and showLocalVideoMediaStream, called on a call
\* that was never opened or accepted and so has no configuration, throw the
\* string '<method>: bad state, unauthorized action' and change no track.
C23_NoConfigurationBadState ==
    (last.op \in LocalMediaStreamMethods /\ call.configuration = Undefined)
    => /\ last.thrown = StringException("WebRTCommCall:" \o last.op
                                          \o "(): bad state, unauthorized action")
       /\ last.calls = <<>>

\* C24: whatever events of the connector and callbacks of the peer
\* connection arrive, a remote answer delivered twice among them, the
\* listener's onWebRTCommCallOpenedEvent is scheduled at most once; the
\* events are counted for the peer connection that the call holds.
C24_OpenedEventAtMostOnce ==
    Truthy(call.peerConnection) => call.peerConnection.opened <= 1

\* C25: for a peer connection that the call holds, connector.invite
\* returns normally at most once, in whatever order the ICE candidate,
\* gathering change and setLocalDescription success callbacks arrive with
\* iceGatheringState 'complete'.
C25_InviteAtMostOnce ==
    Truthy(call.peerConnection) => call.peerConnection.invites <= 1

\* the offer was sent, and a gathering change event with iceGatheringState
\* 'complete' has arrived after it and called nothing
C25_Witness ==
    /\ last.op = "onRtcPeerConnectionGatheringChangeEvent"
    /\ last.args = <<String("complete")>>
    /\ last.calls = <<>>
    /\ window = "webkitRTCPeerConnection"
    /\ call.peerConnectionState = "offer-sent"
    /\ Live(call.peerConnection)
    /\ call.peerConnection.invites = 1

\* the last handler called fn of the connector and fn returned normally:
\* the handler neither threw nor went to onRtcPeerConnectionErrorEvent
ReturnedNormally(h, fn) ==
    /\ fn \in Fns(h.calls)
    /\ h.thrown = NoException
    /\ "this.close" \notin Fns(h.calls)

\* C26: connector.invite is called only in state 'preparing-offer' and
\* connector.accept only in state 'preparing-answer'; after the normal
\* return the state is 'offer-sent' and 'established'; and 'established'
\* is entered from 'preparing-answer' and from 'answer-received' only.
C26_StatesOfInviteAndAccept ==
    [][/\ "connector.invite" \in Fns(last'.calls)
            => call.peerConnectionState = "preparing-offer"
       /\ "connector.accept" \in Fns(last'.calls)
            => call.peerConnectionState = "preparing-answer"
       /\ ReturnedNormally(last', "connector.invite")
            => call'.peerConnectionState = "offer-sent"
       /\ ReturnedNormally(last', "connector.accept")
            => call'.peerConnectionState = "established"
       /\ (call'.peerConnectionState = "established"
            /\ call.peerConnectionState # "established")
            => call.peerConnectionState \in {"preparing-answer", "answer-received"}]_vars

\* the ICE candidate event has accepted the incoming call
C26_Witness ==
    /\ last.op = "onRtcPeerConnectionIceCandidateEvent"
    /\ last.calls = <<[fn |-> "connector.accept", arg |-> Undefined]>>
    /\ last.thrown = NoException
    /\ call.peerConnectionState = "established"
    /\ Scheduled(timers, "onWebRTCommCallOpenedEvent", Undefined)

====
